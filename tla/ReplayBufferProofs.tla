------------------------- MODULE ReplayBufferProofs -------------------------
(***************************************************************************)
(* The safety of the v1 trainers' replay buffer, for every set of uids,    *)
(* every configuration and every bound.                                    *)
(***************************************************************************)
EXTENDS ReplayBuffer, FiniteSetTheorems, TLAPS

-----------------------------------------------------------------------------
(* The inductive invariant.                                                 *)

Ended == {"finished", "failure"}

(* The counters stay in range: a step beyond the last one is only reached   *)
(* when the run is done, and a saved queue is not warmed up more often than *)
(* the present one.                                                         *)
Bounds ==
    /\ pc # "done" => globalSteps <= TotalSteps
    /\ disk.globalSteps <= TotalSteps /\ disk.warmups <= resumes + 1
    /\ pc = "add" => toAdd > 0 /\ trigger = 0
    /\ pc = "saved" => trigger = conf.syncStep - 1

(* The local variables of sample are reset when it returns.                 *)
Locals ==
    /\ pc # "act" => snap = NoSnapshot
    /\ ~Sampling => credit = 0 /\ draining = FALSE
    /\ pc = "add" \/ (~conf.async /\ Sampling) => batch = {}

TypeInv == TypeOK /\ Bounds /\ Locals

(* A session has not ended twice; a group ends after all of its sessions;   *)
(* in a finished one none has raised; what is uniform is finished; what is  *)
(* trained on has left the queue, with a trajectory if groups are filtered. *)
GroupOK(u) ==
    /\ left[u] + traj[u] + silent[u] <= Sessions
    /\ status[u] = "pending" => left[u] = Sessions
    /\ status[u] \notin {"pending", "running"} => left[u] = 0
    /\ status[u] = "finished" => NoError(u)
    /\ status[u] = "none" /\ u \notin batch => silent[u] = 0
    /\ u \in uniform => status[u] = "finished"
    /\ u \in batch => status[u] = "none"
    /\ u \in batch /\ conf.async => NoError(u) /\ (conf.dapo => traj[u] > 0)

(* The workers only move a group forward from where the snapshot saw it.    *)
Lags(u) ==
    \/ snap[u] = status[u]
    \/ snap[u] = "pending" /\ status[u] \in {"running"} \cup Ended
    \/ snap[u] = "running" /\ status[u] \in Ended

(* The same of the queue as it was saved.                                   *)
SavedOK(u) ==
    /\ disk.traj[u] + disk.silent[u] <= Sessions
    /\ disk.status[u] = "finished" => disk.traj[u] + disk.silent[u] = Sessions
    /\ disk.status[u] = "none" => disk.silent[u] = 0
    /\ u \in disk.uniform => disk.status[u] = "finished"
    /\ ~conf.tqSaves => disk.status[u] = "none" /\ disk.traj[u] = 0 /\ disk.warmups = 0

GroupInv ==
    \A u \in Prompts : GroupOK(u) /\ SavedOK(u) /\ (pc = "act" => Lags(u))

(* What the groups in the queue add up to, at each place of the loop.       *)
Stock(n)  == conf.warmup * n * conf.trainBatch
Taken     == trigger * BatchSize
DiskLive  == {u \in Prompts : disk.status[u] # "none"}

StockInv ==
    conf.async =>
        /\ pc = "add" => Cardinality(Live) + toAdd * conf.trainBatch
                            = Stock(warmups) + conf.trainBatch
        /\ Sampling => Cardinality(Live) + Taken = Stock(warmups) + conf.trainBatch
        /\ pc = "train" =>
              Cardinality(Live) + Taken + BatchSize = Stock(warmups) + conf.trainBatch
        /\ pc = "saved" => Cardinality(Live) = Stock(warmups)
        /\ Cardinality(DiskLive) = Stock(disk.warmups)

(* Groups that a synchronous sampler neither filters nor evicts.            *)
Usable ==
    {u \in With(Ended) \ uniform :
        ~(conf.refillFailed /\ status[u] = "failure" /\ traj[u] = 0)}

FillInv ==
    ~conf.async =>
        /\ ~Sampling /\ pc \notin {"done", "failed"} => Live = {}
        /\ Sampling /\ ~conf.dapo =>
              Cardinality(Live) = conf.trainBatch /\ credit = 0 /\ draining = FALSE
        /\ Sampling => Cardinality(Live) + credit >= conf.trainBatch
        /\ Sampling /\ draining => Cardinality(Usable) >= conf.trainBatch
        /\ pc = "act" /\ draining => Enough

(* Once a step trains, nothing in flight is about to become too old.        *)
SpanInv ==
    conf.async =>
        /\ conf.drop => \A u \in batch : Span(u) <= Threshold
        /\ ~conf.drop /\ pc # "done" =>
              \A u \in InFlight :
                Span(u) + (IF pc \in {"train", "saved"} THEN 1 ELSE 0) <= Threshold

DiskLeaked == {u \in Prompts : disk.traj[u] > 0 /\ disk.status[u] = "none"}

(* The batch holds as many groups as were taken out; a queue saved with a   *)
(* batch leaks it, once for every resume.                                   *)
LeakInv ==
    /\ conf.async /\ Sampling => Cardinality(batch) <= Taken
    /\ conf.async /\ pc = "train" => Cardinality(batch) <= Taken + BatchSize
    /\ ~conf.tqSaves => Leaked = {}
    /\ conf.tqSaves => /\ Cardinality(Leaked) <= resumes * conf.trainBatch
                       /\ Cardinality(DiskLeaked) <= (resumes + 1) * conf.trainBatch

Inv == TypeInv /\ GroupInv /\ StockInv /\ FillInv /\ SpanInv /\ LeakInv

-----------------------------------------------------------------------------
(* Counting prompts.                                                        *)

LEMMA Finite == \A S \in SUBSET Prompts : IsFiniteSet(S) /\ Cardinality(S) \in Nat
<1> SUFFICES ASSUME NEW S \in SUBSET Prompts
             PROVE  IsFiniteSet(S) /\ Cardinality(S) \in Nat
    OBVIOUS
<1>1. IsFiniteSet(S)
    BY ConfigAssumption, FS_Subset
<1>2. QED
    BY <1>1, FS_CardinalityType

LEMMA NoneCount == Cardinality({}) = 0
BY FS_EmptySet

LEMMA Smaller ==
    \A S, T \in SUBSET Prompts :
        S \subseteq T => /\ Cardinality(S) <= Cardinality(T)
                         /\ Cardinality(S) = Cardinality(T) => S = T
<1> SUFFICES ASSUME NEW S \in SUBSET Prompts, NEW T \in SUBSET Prompts, S \subseteq T
             PROVE  /\ Cardinality(S) <= Cardinality(T)
                    /\ Cardinality(S) = Cardinality(T) => S = T
    OBVIOUS
<1>1. IsFiniteSet(T) /\ S \in SUBSET T
    BY Finite
<1>2. QED
    BY <1>1, FS_Subset

LEMMA Without ==
    \A S, T \in SUBSET Prompts :
        T \subseteq S => Cardinality(S \ T) = Cardinality(S) - Cardinality(T)
<1> SUFFICES ASSUME NEW S \in SUBSET Prompts, NEW T \in SUBSET Prompts, T \subseteq S
             PROVE  Cardinality(S \ T) = Cardinality(S) - Cardinality(T)
    OBVIOUS
<1>1. IsFiniteSet(S) /\ S \cap T = T
    BY Finite
<1>2. Cardinality(S \ T) = Cardinality(S) - Cardinality(S \cap T)
    BY <1>1, FS_Difference
<1>3. QED
    BY <1>1, <1>2

LEMMA Together ==
    \A S, T \in SUBSET Prompts :
        /\ Cardinality(S \cup T) <= Cardinality(S) + Cardinality(T)
        /\ S \cap T = {} => Cardinality(S \cup T) = Cardinality(S) + Cardinality(T)
<1> SUFFICES ASSUME NEW S \in SUBSET Prompts, NEW T \in SUBSET Prompts
             PROVE  /\ Cardinality(S \cup T) <= Cardinality(S) + Cardinality(T)
                    /\ S \cap T = {} =>
                            Cardinality(S \cup T) = Cardinality(S) + Cardinality(T)
    OBVIOUS
<1>1. IsFiniteSet(S) /\ IsFiniteSet(T) /\ S \cap T \in SUBSET Prompts
    BY Finite
<1>2. Cardinality(S \cup T) = Cardinality(S) + Cardinality(T) - Cardinality(S \cap T)
    BY <1>1, FS_Union
<1>3. Cardinality(S) \in Nat /\ Cardinality(T) \in Nat /\ Cardinality(S \cap T) \in Nat
    BY <1>1, Finite
<1>4. S \cap T = {} => Cardinality(S \cap T) = 0
    BY NoneCount
<1>5. QED
    BY <1>2, <1>3, <1>4

LEMMA MinOfTwo ==
    \A a, b \in Int : Min({a, b}) \in {a, b} /\ Min({a, b}) <= a /\ Min({a, b}) <= b
<1> SUFFICES ASSUME NEW a \in Int, NEW b \in Int
             PROVE  Min({a, b}) \in {a, b} /\ Min({a, b}) <= a /\ Min({a, b}) <= b
    OBVIOUS
<1>1. \E x \in {a, b} : \A y \in {a, b} : x =< y
    OBVIOUS
<1>2. Min({a, b}) \in {a, b} /\ \A y \in {a, b} : Min({a, b}) =< y
    BY <1>1 DEF Min
<1>3. QED
    BY <1>2

LEMMA MaxOfTwo ==
    \A a, b \in Int : Max({a, b}) \in {a, b} /\ Max({a, b}) >= a
<1> SUFFICES ASSUME NEW a \in Int, NEW b \in Int
             PROVE  Max({a, b}) \in {a, b} /\ Max({a, b}) >= a
    OBVIOUS
<1>1. \E x \in {a, b} : \A y \in {a, b} : x >= y
    OBVIOUS
<1>2. Max({a, b}) \in {a, b} /\ \A y \in {a, b} : Max({a, b}) >= y
    BY <1>1 DEF Max
<1>3. QED
    BY <1>2

(* A batch is made of syncStep equal mini-batches.                          *)
LEMMA Batches ==
    ASSUME NEW t \in Nat \ {0}, NEW s \in Nat \ {0}, t % s = 0
    PROVE  /\ t \div s \in Nat
           /\ s * (t \div s) = t
           /\ s = 1 => t \div s = t
OBVIOUS

-----------------------------------------------------------------------------
(* Constants and the sets a sample reads off its snapshot.                  *)

LEMMA ConfFacts ==
    ASSUME conf \in Configs
    PROVE  /\ conf.trainBatch \in Nat \ {0} /\ conf.syncStep \in Nat \ {0}
           /\ conf.warmup \in Nat /\ conf.inflightBatches \in Nat /\ conf.saveFreq \in Nat
           /\ conf.async \in BOOLEAN /\ conf.drop \in BOOLEAN /\ conf.dapo \in BOOLEAN
           /\ conf.refillFailed \in BOOLEAN /\ conf.tqSaves \in BOOLEAN
           /\ ~conf.async => conf.warmup = 0 /\ conf.syncStep = 1 /\ ~conf.tqSaves
           /\ BatchSize \in Nat
           /\ conf.syncStep * BatchSize = conf.trainBatch
           /\ conf.syncStep = 1 => BatchSize = conf.trainBatch
           /\ Sessions \in Nat \ {0} /\ Threshold \in Nat \ {0}
           /\ TotalSteps \in Nat /\ MaxCredit \in Nat /\ MaxResumes \in Nat
<1>1. conf \in ConfigType /\ conf.trainBatch % conf.syncStep = 0
    BY ConfigAssumption
<1>2. conf.trainBatch \in Nat \ {0} /\ conf.syncStep \in Nat \ {0}
    BY <1>1 DEF ConfigType
<1>3. /\ BatchSize \in Nat
      /\ conf.syncStep * BatchSize = conf.trainBatch
      /\ conf.syncStep = 1 => BatchSize = conf.trainBatch
    BY <1>1, <1>2, Batches DEF BatchSize
<1>4. /\ conf.warmup \in Nat /\ conf.inflightBatches \in Nat /\ conf.saveFreq \in Nat
      /\ conf.async \in BOOLEAN /\ conf.drop \in BOOLEAN /\ conf.dapo \in BOOLEAN
      /\ conf.refillFailed \in BOOLEAN /\ conf.tqSaves \in BOOLEAN
    BY <1>1 DEF ConfigType
<1>5. ~conf.async => conf.warmup = 0 /\ conf.syncStep = 1 /\ ~conf.tqSaves
    BY ConfigAssumption
<1>6. QED
    BY ConfigAssumption, <1>2, <1>3, <1>4, <1>5

LEMMA SeenParts ==
    /\ Evicted \subseteq Seen(Ended) /\ Failed \subseteq Seen(Ended)
    /\ Sampleable \subseteq Seen(Ended) /\ Sampleable \cap Evicted = {}
    /\ SeenInFlight \in SUBSET Prompts /\ Seen(Ended) \in SUBSET Prompts
    /\ Stale \in SUBSET Prompts /\ Filtered \in SUBSET Prompts
    /\ conf.async => Seen({"failure"}) \subseteq Evicted
<1>1. Stale \subseteq Seen({"finished"})
    BY DEF Stale
<1>2. Filtered \subseteq Seen({"finished"})
    BY DEF Filtered
<1>3. Failed \subseteq Seen({"failure"}) /\ (conf.async => Failed = Seen({"failure"}))
    BY DEF Failed
<1>4. QED
    BY <1>1, <1>2, <1>3 DEF Evicted, Sampleable, SeenInFlight, Seen, Ended

(* What a poll that returns no batch does: the groups out are cleared, the  *)
(* prompts in are submitted.                                                *)
Exchanged(out, in) ==
    /\ pc = "act" /\ pc' = "poll" /\ snap' = NoSnapshot
    /\ out \subseteq Seen(Ended) /\ in \subseteq Unused \cup out
    /\ Exchange(out, in)
    /\ credit' \in Nat /\ draining' \in BOOLEAN
    /\ UNCHANGED <<conf, trainerVars, crashVars>>

(* What a poll that returns one does.                                       *)
Selected(S, out) ==
    /\ pc = "act"
    /\ S \subseteq Sampleable /\ Cardinality(S) = BatchSize
    /\ out \subseteq Seen(Ended) /\ S \cap out = {}
    /\ conf.async => MissingMetric = {}
    /\ Select(S, out)

LEMMA Chosen ==
    ASSUME NEW S \in SUBSET Sampleable, Oldest(S)
    PROVE  Cardinality(S) = BatchSize
BY DEF Oldest, kSubset

LEMMA AsyncSteps ==
    ASSUME TypeInv, SampleAsync
    PROVE  \/ \E out, in \in SUBSET Prompts :
                /\ Exchanged(out, in)
                /\ Cardinality(in) = Cardinality(out)
                /\ credit' = credit /\ draining' = draining
           \/ Evicted = {} /\ ~HeldBack /\ \E S \in SUBSET Prompts : Selected(S, {})
<1>1. CASE Refill(Evicted, Cardinality(Evicted), credit)
  <2>1. PICK in \in kSubset(Cardinality(Evicted), Unused \cup Evicted) : Exchange(Evicted, in)
    BY <1>1 DEF Refill, Replace
  <2>2. /\ in \subseteq Unused \cup Evicted /\ Cardinality(in) = Cardinality(Evicted)
        /\ in \in SUBSET Prompts /\ Evicted \in SUBSET Prompts
    BY <2>1, SeenParts DEF kSubset, Unused, Seen
  <2>3. Exchanged(Evicted, in) /\ credit' = credit /\ draining' = draining
    BY <1>1, <2>1, <2>2, SeenParts DEF Exchanged, Refill, SampleAsync, TypeInv, TypeOK
  <2>4. QED
    BY <2>2, <2>3
<1>2. CASE WaitForNextPoll({}, credit, draining)
  <2>1. Exchanged({}, {}) /\ credit' = credit /\ draining' = draining
    BY <1>2 DEF Exchanged, WaitForNextPoll, SampleAsync, TypeInv, TypeOK
  <2>2. QED
    BY <2>1
<1>3. CASE /\ Evicted = {} /\ ~HeldBack
           /\ \E S \in SUBSET Sampleable : Oldest(S) /\ Select(S, {})
  <2>1. PICK S \in SUBSET Sampleable : Oldest(S) /\ Select(S, {})
    BY <1>3
  <2>2. Selected(S, {}) /\ S \in SUBSET Prompts
    BY <2>1, Chosen, SeenParts DEF Selected, Seen, SampleAsync
  <2>3. QED
    BY <1>3, <2>2
<1>4. QED
    BY <1>1, <1>2, <1>3 DEF SampleAsync

LEMMA SyncSteps ==
    ASSUME TypeInv, SampleSync
    PROVE  \/ \E out, in \in SUBSET Prompts :
                /\ Exchanged(out, in)
                /\ Cardinality(in) = Cardinality(out)
                /\ credit' = credit /\ draining' = draining
           \/ \E S \in SUBSET Prompts : Selected(S, Failed)
<1>1. CASE Refill(Failed, Cardinality(Failed), credit)
  <2>1. PICK in \in kSubset(Cardinality(Failed), Unused \cup Failed) : Exchange(Failed, in)
    BY <1>1 DEF Refill, Replace
  <2>2. /\ in \subseteq Unused \cup Failed /\ Cardinality(in) = Cardinality(Failed)
        /\ in \in SUBSET Prompts /\ Failed \in SUBSET Prompts
    BY <2>1, SeenParts DEF kSubset, Unused, Seen
  <2>3. Exchanged(Failed, in) /\ credit' = credit /\ draining' = draining
    BY <1>1, <2>1, <2>2, SeenParts DEF Exchanged, Refill, SampleSync, TypeInv, TypeOK
  <2>4. QED
    BY <2>2, <2>3
<1>2. CASE WaitForNextPoll({}, credit, draining)
  <2>1. Exchanged({}, {}) /\ credit' = credit /\ draining' = draining
    BY <1>2 DEF Exchanged, WaitForNextPoll, SampleSync, TypeInv, TypeOK
  <2>2. QED
    BY <2>1
<1>3. CASE \E S \in SUBSET Sampleable : Oldest(S) /\ Select(S, Failed)
  <2>1. PICK S \in SUBSET Sampleable : Oldest(S) /\ Select(S, Failed)
    BY <1>3
  <2>2. S \cap Failed = {}
    BY SeenParts DEF Evicted
  <2>3. Selected(S, Failed) /\ S \in SUBSET Prompts
    BY <2>1, <2>2, Chosen, SeenParts DEF Selected, Seen, SampleSync
  <2>4. QED
    BY <2>3
<1>4. QED
    BY <1>1, <1>2, <1>3 DEF SampleSync

LEMMA DapoSteps ==
    ASSUME TypeInv, SampleSyncDapo
    PROVE  \/ \E in \in SUBSET Prompts :
                /\ Exchanged(Evicted, in)
                /\ \/ Enough /\ in = {} /\ credit' = 0 /\ draining' = TRUE
                   \/ /\ ~Enough /\ draining = FALSE /\ draining' = FALSE
                      /\ Cardinality(in) + credit' = Credit
                   \/ ~Enough /\ draining = TRUE
           \/ /\ SeenInFlight = {}
              /\ \E S \in SUBSET Prompts : Selected(S, Seen(Ended) \ S)
<1>1. CASE Enough /\ WaitForNextPoll(Evicted, 0, TRUE)
  <2>1. Exchanged(Evicted, {}) /\ credit' = 0 /\ draining' = TRUE
    BY <1>1, SeenParts DEF Exchanged, WaitForNextPoll, SampleSyncDapo
  <2>2. QED
    BY <1>1, <2>1
<1>2. CASE ~Enough /\ draining /\ WaitForNextPoll(Evicted, credit, TRUE)
  <2>1. Exchanged(Evicted, {})
    BY <1>2, SeenParts DEF Exchanged, WaitForNextPoll, SampleSyncDapo, TypeInv, TypeOK
  <2>2. draining = TRUE
    BY <1>2 DEF TypeInv, TypeOK
  <2>3. QED
    BY <1>2, <2>1, <2>2
<1>3. ASSUME ~Enough, ~draining
      PROVE  Credit \in Nat /\ Slots \in Nat /\ Min({Credit, Slots}) \in Nat
             /\ Min({Credit, Slots}) <= Credit /\ draining = FALSE
  <2>1. /\ Cardinality(Filtered) \in Nat /\ Cardinality(Failed) \in Nat
        /\ Cardinality(SeenInFlight) \in Nat
    BY Finite, SeenParts
  <2>2. credit \in Nat /\ draining = FALSE /\ conf \in Configs
    BY <1>3 DEF TypeInv, TypeOK
  <2>3. Credit \in Nat
    BY <2>1, <2>2 DEF Credit
  <2>4. conf.inflightBatches * conf.trainBatch \in Int
    BY <2>2, ConfFacts
  <2>5. conf.inflightBatches * conf.trainBatch - Cardinality(SeenInFlight) \in Int
    BY <2>1, <2>4
  <2>6. Slots \in Nat
    BY <2>5, MaxOfTwo DEF Slots
  <2>7. QED
    BY <2>2, <2>3, <2>6, MinOfTwo
<1>4. ASSUME ~Enough, ~draining, NEW n \in Nat, n <= Credit, Credit \in Nat,
             Refill(Evicted, n, Credit - n)
      PROVE  \E in \in SUBSET Prompts :
                /\ Exchanged(Evicted, in) /\ draining' = draining
                /\ Cardinality(in) + credit' = Credit
  <2>1. PICK in \in kSubset(n, Unused \cup Evicted) : Exchange(Evicted, in)
    BY <1>4 DEF Refill, Replace
  <2>2. /\ in \subseteq Unused \cup Evicted /\ Cardinality(in) = n
        /\ in \in SUBSET Prompts
    BY <2>1, SeenParts DEF kSubset, Unused, Seen
  <2>3. credit' = Credit - n /\ draining' = draining
    BY <1>4 DEF Refill
  <2>4. credit' \in Nat /\ n + credit' = Credit
    BY <1>4, <2>3
  <2>5. Exchanged(Evicted, in)
    BY <1>4, <2>1, <2>2, <2>3, <2>4, SeenParts
    DEF Exchanged, Refill, SampleSyncDapo, TypeInv, TypeOK
  <2>6. QED
    BY <2>2, <2>3, <2>4, <2>5
<1>5. ASSUME ~Enough, ~draining, Credit \in Nat, WaitForNextPoll(Evicted, Credit, FALSE)
      PROVE  Exchanged(Evicted, {}) /\ draining' = FALSE /\ Cardinality({}) + credit' = Credit
  <2>1. credit' = Credit /\ draining' = FALSE
    BY <1>5 DEF WaitForNextPoll
  <2>2. Exchanged(Evicted, {})
    BY <1>5, <2>1, SeenParts DEF Exchanged, WaitForNextPoll, SampleSyncDapo
  <2>3. QED
    BY <1>5, <2>1, <2>2, NoneCount
<1>6. CASE /\ ~Enough /\ ~draining
           /\ LET n == Min({Credit, Slots}) IN
                 \/ n > 0 /\ Refill(Evicted, n, Credit - n)
                 \/ n = 0 /\ WaitForNextPoll(Evicted, Credit, FALSE)
  <2>1. PICK n \in Nat : n = Min({Credit, Slots}) /\ n <= Credit
    BY <1>3, <1>6
  <2>2. CASE Refill(Evicted, n, Credit - n)
    BY <1>3, <1>4, <1>6, <2>1, <2>2
  <2>3. CASE WaitForNextPoll(Evicted, Credit, FALSE)
    BY <1>3, <1>5, <1>6, <2>3
  <2>4. QED
    BY <1>6, <2>1, <2>2, <2>3
<1>7. CASE SeenInFlight = {} /\ SelectDrained
  <2>1. PICK S \in SUBSET Sampleable :
            Oldest(S) /\ Select(S, (Sampleable \ S) \cup Evicted)
    BY <1>7 DEF SelectDrained
  <2>2. (Sampleable \ S) \cup Evicted = Seen(Ended) \ S
    BY SeenParts DEF Sampleable, Ended
  <2>3. Selected(S, Seen(Ended) \ S) /\ S \in SUBSET Prompts
    BY <2>1, <2>2, Chosen, SeenParts DEF Selected, Seen, SampleSyncDapo
  <2>4. QED
    BY <1>7, <2>3
<1>8. QED
    BY <1>1, <1>2, <1>6, <1>7 DEF SampleSyncDapo

LEMMA AddSteps ==
    ASSUME AddBatch
    PROVE  \E in \in SUBSET Prompts :
              in \subseteq Unused /\ Cardinality(in) = conf.trainBatch /\ Exchange({}, in)
<1>1. PICK in \in kSubset(conf.trainBatch, Unused \cup {}) : Exchange({}, in)
    BY DEF AddBatch, Replace
<1>2. QED
    BY <1>1 DEF kSubset, Unused

(* The steps of the system.                                                 *)
LEMMA StepCases ==
    ASSUME TypeInv, [Next]_vars
    PROVE  \/ UNCHANGED vars
           \/ \E u \in Prompts : Worker(u)
           \/ AddBatch \/ Poll \/ NextTrigger \/ Save \/ EndStep \/ Resume
           \/ \E out, in \in SUBSET Prompts : Exchanged(out, in)
           \/ \E S, out \in SUBSET Prompts : Selected(S, out)
           \/ RaiseMissingMetric
<1>1. CASE SampleAsync
  <2>1. {} \in SUBSET Prompts
    OBVIOUS
  <2>2. QED
    BY <1>1, <2>1, AsyncSteps
<1>2. CASE SampleSync
  <2>1. Failed \in SUBSET Prompts
    BY SeenParts
  <2>2. QED
    BY <1>2, <2>1, SyncSteps
<1>3. CASE SampleSyncDapo
  <2>1. Evicted \in SUBSET Prompts /\ \A S : Seen(Ended) \ S \in SUBSET Prompts
    BY SeenParts
  <2>2. QED
    BY <1>3, <2>1, DapoSteps
<1>4. QED
    BY <1>1, <1>2, <1>3 DEF Next, Trainer, Stopped

-----------------------------------------------------------------------------
(* Types and bounds.                                                        *)

LEMMA QueueTypes ==
    ASSUME TypeInv, NEW out \in SUBSET Prompts, NEW in \in SUBSET Prompts, Exchange(out, in)
    PROVE  /\ status' \in [Prompts -> Statuses] /\ step' \in [Prompts -> Steps]
           /\ left' \in [Prompts -> 0 .. Sessions] /\ traj' \in [Prompts -> 0 .. Sessions]
           /\ silent' \in [Prompts -> 0 .. Sessions] /\ uniform' \subseteq Prompts
<1>1. Sessions \in 0 .. Sessions /\ 0 \in 0 .. Sessions /\ 0 \in Steps /\ globalSteps \in Steps
    BY ConfigAssumption DEF TypeInv, TypeOK, Steps
<1>2. QED
    BY <1>1 DEF TypeInv, TypeOK, Exchange, Statuses

LEMMA TypeInit == Init => TypeInv
<1> SUFFICES ASSUME Init PROVE TypeInv
    OBVIOUS
<1>1. conf \in Configs
    BY DEF Init
<1>2. 0 \in 0 .. Sessions /\ 0 \in Steps /\ 1 \in Steps \ {0}
    BY <1>1, ConfFacts DEF Steps
<1>3. disk \in [globalSteps: Steps, status: [Prompts -> Statuses], step: [Prompts -> Steps],
                traj: [Prompts -> 0 .. Sessions], silent: [Prompts -> 0 .. Sessions],
                uniform: SUBSET Prompts, warmups: Nat]
    BY <1>2 DEF Init, Bare, NoSnapshot, Statuses
<1>4. /\ trigger \in 0 .. conf.syncStep - 1 /\ toAdd \in 0 .. conf.warmup + 1
      /\ warmups \in 1 .. resumes + 1 /\ resumes \in 0 .. MaxResumes
    BY <1>1, ConfFacts DEF Init
<1>5. TypeOK
    BY <1>1, <1>2, <1>3, <1>4 DEF Init, TypeOK, NoSnapshot, Statuses
<1>6. /\ pc # "done" => globalSteps <= TotalSteps
      /\ pc = "add" => toAdd > 0 /\ trigger = 0
      /\ pc \in {"done", "add"}
    BY <1>1, ConfFacts DEF Init
<1>7. disk.globalSteps = 0 /\ disk.warmups = 0
    BY DEF Init, Bare
<1>8. Bounds
    BY <1>1, <1>6, <1>7, ConfFacts DEF Init, Bounds
<1>9. Locals
    BY <1>6 DEF Init, Locals, Sampling
<1>10. QED
    BY <1>5, <1>8, <1>9 DEF TypeInv

LEMMA TypeStep ==
    ASSUME TypeInv, GroupInv, [Next]_vars
    PROVE  TypeInv'
<1>t. TypeOK /\ Bounds /\ Locals /\ conf \in Configs
    BY DEF TypeInv, TypeOK
<1>n. /\ Sessions \in 0 .. Sessions /\ 0 \in 0 .. Sessions /\ 0 \in Steps
      /\ Sessions \in Nat /\ TotalSteps \in Nat
      /\ conf.syncStep \in Nat \ {0} /\ conf.warmup \in Nat
    BY <1>t, ConfFacts DEF Steps
<1>1. CASE UNCHANGED vars
    BY <1>t, <1>1 DEF TypeInv, TypeOK, Bounds, Locals, Sampling, vars, queueVars, sampleVars,
        trainerVars, crashVars
<1>2. ASSUME NEW u \in Prompts, Worker(u) PROVE TypeInv'
  <2>1. UNCHANGED <<conf, step, pc, sampleVars, trainerVars, crashVars>>
    BY <1>2 DEF Worker, Start, EndSession, Settle
  <2>2. status' \in [Prompts -> Statuses] /\ uniform' \subseteq Prompts
    BY <1>t, <1>2 DEF Worker, Start, EndSession, Settle, TypeOK, Statuses
  <2>3. left' \in [Prompts -> 0 .. Sessions]
    BY <1>t, <1>n, <1>2 DEF Worker, Start, EndSession, Settle, TypeOK
  <2>4. traj' \in [Prompts -> 0 .. Sessions] /\ silent' \in [Prompts -> 0 .. Sessions]
    <3>1. left[u] + traj[u] + silent[u] <= Sessions
        BY DEF GroupInv, GroupOK
    <3>2. /\ left[u] \in Nat /\ traj[u] \in Nat /\ silent[u] \in Nat /\ u \in Prompts
        BY <1>t, <1>2 DEF TypeOK
    <3>3. CASE \E how \in {"written", "empty", "raised"} : EndSession(u, how)
        BY <1>t, <1>n, <3>1, <3>2, <3>3 DEF EndSession, TypeOK
    <3>4. CASE ~\E how \in {"written", "empty", "raised"} : EndSession(u, how)
        BY <1>t, <1>2, <3>4 DEF Worker, Start, Settle, TypeOK
    <3>5. QED
        BY <3>3, <3>4
  <2>5. QED
    BY <1>t, <2>1, <2>2, <2>3, <2>4
    DEF TypeInv, TypeOK, Bounds, Locals, Sampling, sampleVars, trainerVars, crashVars
<1>3. CASE AddBatch
  <2>1. PICK in \in SUBSET Prompts : Exchange({}, in)
    BY <1>3, AddSteps
  <2>2. /\ status' \in [Prompts -> Statuses] /\ step' \in [Prompts -> Steps]
        /\ left' \in [Prompts -> 0 .. Sessions] /\ traj' \in [Prompts -> 0 .. Sessions]
        /\ silent' \in [Prompts -> 0 .. Sessions] /\ uniform' \subseteq Prompts
    BY <2>1, QueueTypes
  <2>3. /\ UNCHANGED <<conf, snap, credit, draining, globalSteps, trigger, batch, disk, warmups,
                       resumes>>
        /\ pc = "add" /\ toAdd' = toAdd - 1 /\ pc' = IF toAdd = 1 THEN "poll" ELSE "add"
    BY <1>3 DEF AddBatch, sampleVars, crashVars
  <2>4. toAdd' \in 0 .. conf.warmup + 1 /\ (pc' = "add" => toAdd' > 0)
    BY <1>t, <1>n, <2>3 DEF TypeOK, Bounds
  <2>5. TypeOK'
    BY <1>t, <2>2, <2>3, <2>4 DEF TypeOK
  <2>6. Bounds'
    BY <1>t, <2>3, <2>4 DEF Bounds
  <2>7. Locals'
    BY <1>t, <2>3 DEF Locals, Sampling
  <2>8. QED
    BY <2>5, <2>6, <2>7 DEF TypeInv
<1>4. CASE Poll
    BY <1>t, <1>4 DEF TypeInv, TypeOK, Bounds, Locals, Sampling, Poll, queueVars, trainerVars,
        crashVars
<1>5. CASE NextTrigger
  <2>1. trigger' \in 0 .. conf.syncStep - 1 /\ conf.async
    BY <1>t, <1>n, <1>5, ConfFacts DEF NextTrigger, TypeOK
  <2>2. QED
    BY <1>t, <1>5, <2>1 DEF TypeInv, TypeOK, Bounds, Locals, Sampling, NextTrigger, queueVars,
        sampleVars, crashVars
<1>6. CASE Save
  <2>1. /\ UNCHANGED <<conf, queueVars, sampleVars, trainerVars, warmups, resumes>>
        /\ pc = "train" /\ pc' = "saved" /\ trigger = conf.syncStep - 1
    BY <1>6 DEF Save
  <2>2. globalSteps \in Steps /\ globalSteps <= TotalSteps /\ warmups \in Nat
        /\ warmups <= resumes + 1 /\ resumes \in Nat
    BY <1>t, <1>n, <2>1 DEF TypeOK, Bounds
  <2>3. /\ [u \in Prompts |-> IF u \in Live THEN step[u] ELSE 0] \in [Prompts -> Steps]
        /\ NoSnapshot \in [Prompts -> Statuses]
        /\ [u \in Prompts |-> 0] \in [Prompts -> Steps]
        /\ [u \in Prompts |-> 0] \in [Prompts -> 0 .. Sessions]
        /\ [u \in Prompts |-> IF u \in Live THEN silent[u] ELSE 0] \in [Prompts -> 0 .. Sessions]
    BY <1>t, <1>n DEF TypeOK, NoSnapshot, Statuses
  <2>4. disk' \in [globalSteps: Steps, status: [Prompts -> Statuses], step: [Prompts -> Steps],
                   traj: [Prompts -> 0 .. Sessions], silent: [Prompts -> 0 .. Sessions],
                   uniform: SUBSET Prompts, warmups: Nat]
        /\ disk'.globalSteps = globalSteps /\ disk'.warmups \in {0, warmups}
    <3>1. CASE conf.tqSaves
        BY <1>t, <1>6, <2>2, <2>3, <3>1 DEF Save, TypeOK
    <3>2. CASE ~conf.tqSaves
        BY <1>6, <2>2, <2>3, <3>2 DEF Save, Bare
    <3>3. QED
        BY <3>1, <3>2
  <2>5. TypeOK'
    BY <1>t, <2>1, <2>4 DEF TypeOK, queueVars, sampleVars, trainerVars
  <2>6. Bounds'
    BY <1>t, <2>1, <2>2, <2>4 DEF Bounds, trainerVars
  <2>7. Locals'
    BY <1>t, <2>1 DEF Locals, Sampling, sampleVars, trainerVars
  <2>8. QED
    BY <2>5, <2>6, <2>7 DEF TypeInv
<1>7. CASE EndStep
  <2>1. /\ UNCHANGED <<conf, status, left, uniform, sampleVars, crashVars>>
        /\ pc \in {"train", "saved"} /\ pc' = IF globalSteps = TotalSteps THEN "done" ELSE "add"
        /\ batch' = {} /\ trigger' = 0 /\ toAdd' = 1 /\ globalSteps' = globalSteps + 1
    BY <1>7 DEF EndStep
  <2>2. /\ traj' \in [Prompts -> 0 .. Sessions] /\ step' \in [Prompts -> Steps]
        /\ silent' \in [Prompts -> 0 .. Sessions]
    BY <1>t, <1>n, <1>7 DEF EndStep, TypeOK
  <2>3. globalSteps' \in Steps \ {0} /\ (pc' # "done" => globalSteps' <= TotalSteps)
    BY <1>t, <1>n, <2>1 DEF TypeOK, Bounds, Steps
  <2>4. trigger' \in 0 .. conf.syncStep - 1 /\ toAdd' \in 0 .. conf.warmup + 1
    BY <1>n, <2>1
  <2>5. TypeOK'
    BY <1>t, <2>1, <2>2, <2>3, <2>4 DEF TypeOK, sampleVars, crashVars
  <2>6. Bounds'
    BY <1>t, <2>1, <2>3 DEF Bounds, crashVars
  <2>7. Locals'
    BY <1>t, <2>1 DEF Locals, Sampling, sampleVars
  <2>8. QED
    BY <2>5, <2>6, <2>7 DEF TypeInv
<1>8. CASE Resume
  <2>1. /\ UNCHANGED <<conf, disk>>
        /\ globalSteps' = disk.globalSteps + 1 /\ trigger' = 0 /\ toAdd' = conf.warmup + 1
        /\ pc' = IF disk.globalSteps = TotalSteps THEN "done" ELSE "add"
        /\ snap' = NoSnapshot /\ credit' = 0 /\ draining' = FALSE /\ batch' = {}
        /\ warmups' = disk.warmups + 1 /\ resumes' = resumes + 1
        /\ uniform' = disk.uniform /\ resumes < MaxResumes
    BY <1>8 DEF Resume
  <2>2. /\ disk.globalSteps \in Nat /\ disk.globalSteps <= TotalSteps /\ disk.warmups \in Nat
        /\ disk.warmups <= resumes + 1 /\ resumes \in Nat /\ MaxResumes \in Nat
        /\ disk.status \in [Prompts -> Statuses] /\ disk.step \in [Prompts -> Steps]
        /\ disk.traj \in [Prompts -> 0 .. Sessions] /\ disk.uniform \in SUBSET Prompts
        /\ disk.silent \in [Prompts -> 0 .. Sessions]
        /\ disk.globalSteps + 1 \in Steps
    BY <1>t, <1>n, ConfFacts DEF TypeOK, Bounds, Steps
  <2>3. globalSteps' \in Steps \ {0} /\ (pc' # "done" => globalSteps' <= TotalSteps)
    BY <1>n, <2>1, <2>2 DEF Steps
  <2>4. /\ trigger' \in 0 .. conf.syncStep - 1 /\ toAdd' \in 0 .. conf.warmup + 1
        /\ toAdd' > 0
    BY <1>n, <2>1
  <2>5. warmups' \in 1 .. resumes' + 1 /\ resumes' \in 0 .. MaxResumes
    BY <2>1, <2>2
  <2>6. status' \in [Prompts -> Statuses] /\ left' \in [Prompts -> 0 .. Sessions]
    BY <1>n, <1>8, <2>2 DEF Resume, Statuses
  <2>7. /\ step' \in [Prompts -> Steps] /\ traj' \in [Prompts -> 0 .. Sessions]
        /\ silent' \in [Prompts -> 0 .. Sessions]
    BY <1>n, <1>8, <2>2 DEF Resume, Restored
  <2>8. NoSnapshot \in [Prompts -> Statuses]
    BY DEF NoSnapshot, Statuses
  <2>9. TypeOK'
    BY <1>t, <2>1, <2>2, <2>3, <2>4, <2>5, <2>6, <2>7, <2>8 DEF TypeOK
  <2>10. Bounds'
    BY <1>t, <2>1, <2>2, <2>3, <2>4 DEF Bounds
  <2>11. Locals'
    BY <2>1 DEF Locals, Sampling
  <2>12. QED
    BY <2>9, <2>10, <2>11 DEF TypeInv
<1>9. ASSUME NEW out \in SUBSET Prompts, NEW in \in SUBSET Prompts, Exchanged(out, in)
      PROVE  TypeInv'
  <2>1. /\ status' \in [Prompts -> Statuses] /\ step' \in [Prompts -> Steps]
        /\ left' \in [Prompts -> 0 .. Sessions] /\ traj' \in [Prompts -> 0 .. Sessions]
        /\ silent' \in [Prompts -> 0 .. Sessions] /\ uniform' \subseteq Prompts
    BY <1>9, QueueTypes DEF Exchanged
  <2>2. /\ UNCHANGED <<conf, globalSteps, trigger, toAdd, batch, disk, warmups, resumes>>
        /\ pc = "act" /\ pc' = "poll" /\ snap' = NoSnapshot
        /\ credit' \in Nat /\ draining' \in BOOLEAN
    BY <1>9 DEF Exchanged, trainerVars, crashVars
  <2>3. NoSnapshot \in [Prompts -> Statuses]
    BY DEF NoSnapshot, Statuses
  <2>4. TypeOK'
    BY <1>t, <2>1, <2>2, <2>3 DEF TypeOK
  <2>5. Bounds' /\ Locals'
    BY <1>t, <2>2 DEF Bounds, Locals, Sampling
  <2>6. QED
    BY <2>4, <2>5 DEF TypeInv
<1>10. ASSUME NEW S \in SUBSET Prompts, NEW out \in SUBSET Prompts, Selected(S, out)
       PROVE  TypeInv'
  <2>1. /\ status' = [u \in Prompts |-> IF u \in S \cup out THEN "none" ELSE status[u]]
        /\ step' = [u \in Prompts |-> IF u \in out THEN 0 ELSE step[u]]
        /\ traj' = [u \in Prompts |-> IF u \in out THEN 0 ELSE traj[u]]
        /\ silent' = [u \in Prompts |-> IF u \in out THEN 0 ELSE silent[u]]
        /\ uniform' = uniform \ (S \cup out)
        /\ batch' = batch \cup S
        /\ credit' = 0 /\ draining' = FALSE /\ snap' = NoSnapshot
        /\ pc = "act" /\ pc' \in {"train", "failed"}
        /\ UNCHANGED <<conf, left, globalSteps, trigger, toAdd, disk, warmups, resumes>>
    BY <1>10 DEF Selected, Select, crashVars
  <2>2. NoSnapshot \in [Prompts -> Statuses]
    BY DEF NoSnapshot, Statuses
  <2>3. /\ status' \in [Prompts -> Statuses] /\ step' \in [Prompts -> Steps]
        /\ traj' \in [Prompts -> 0 .. Sessions] /\ silent' \in [Prompts -> 0 .. Sessions]
        /\ uniform' \subseteq Prompts /\ batch' \subseteq Prompts
    BY <1>t, <1>n, <2>1 DEF TypeOK, Statuses
  <2>4. TypeOK'
    BY <1>t, <2>1, <2>2, <2>3 DEF TypeOK
  <2>5. Bounds' /\ Locals'
    BY <1>t, <2>1 DEF Bounds, Locals, Sampling
  <2>6. QED
    BY <2>4, <2>5 DEF TypeInv
<1>11. CASE RaiseMissingMetric
  <2>1. NoSnapshot \in [Prompts -> Statuses]
    BY DEF NoSnapshot, Statuses
  <2>2. QED
    BY <1>t, <1>11, <2>1 DEF TypeInv, TypeOK, Bounds, Locals, Sampling, RaiseMissingMetric,
        queueVars, trainerVars, crashVars
<1>12. QED
    BY <1>1, <1>2, <1>3, <1>4, <1>5, <1>6, <1>7, <1>8, <1>9, <1>10, <1>11, StepCases

-----------------------------------------------------------------------------
(* The single groups.                                                       *)

(* What the snapshot still says of the queue.                               *)
LEMMA SnapshotFacts ==
    ASSUME TypeInv, GroupInv, pc = "act"
    PROVE  /\ \A u \in Seen(Ended) : status[u] = snap[u] /\ status[u] \in Ended
           /\ Seen(Ended) \subseteq Live /\ InFlight \subseteq SeenInFlight
           /\ Live = Seen(Statuses \ {"none"})
<1> USE DEF Ended, Statuses
<1>1. \A u \in Prompts : Lags(u) /\ snap[u] \in Statuses /\ status[u] \in Statuses
    BY DEF TypeInv, TypeOK, GroupInv
<1>2. \A u \in Seen(Ended) : status[u] = snap[u] /\ status[u] \in Ended
    BY <1>1 DEF Seen, Lags
<1>3. \A u \in Prompts : snap[u] = "none" <=> status[u] = "none"
    BY <1>1 DEF Lags
<1>4. \A u \in Prompts : status[u] \in {"pending", "running"} => snap[u] \in {"pending", "running"}
    BY <1>1 DEF Lags
<1>5. QED
    BY <1>1, <1>2, <1>3, <1>4 DEF Seen, SeenInFlight, InFlight, Live, With

(* A group that is given a uid anew was neither trained on nor scored.      *)
LEMMA FreshFacts ==
    ASSUME TypeInv, GroupInv, NEW u \in Unused
    PROVE  /\ u \in Prompts /\ u \notin batch /\ u \notin uniform
           /\ status[u] = "none" /\ traj[u] = 0 /\ silent[u] = 0
<1>1. u \in Prompts /\ u \notin batch /\ status[u] = "none" /\ traj[u] = 0
    BY DEF Unused
<1>2. GroupOK(u)
    BY <1>1 DEF GroupInv
<1>3. QED
    BY <1>1, <1>2 DEF GroupOK

LEMMA ExchangeGroups ==
    ASSUME TypeInv, GroupInv, pc \in {"add", "poll", "act"},
           NEW out \in SUBSET Prompts, NEW in \in SUBSET Prompts, Exchange(out, in),
           in \subseteq Unused \cup out, \A u \in out : status[u] \in Ended,
           UNCHANGED <<conf, batch>>, NEW u \in Prompts
    PROVE  GroupOK(u)'
<1>t. /\ conf \in Configs /\ left[u] \in 0 .. Sessions /\ traj[u] \in 0 .. Sessions
      /\ silent[u] \in 0 .. Sessions /\ Sessions \in Nat \ {0} /\ GroupOK(u)
    BY ConfFacts DEF TypeInv, TypeOK, GroupInv
<1>1. /\ status'[u] = IF u \in in THEN "pending" ELSE IF u \in out THEN "none" ELSE status[u]
      /\ left'[u] = IF u \in in THEN Sessions ELSE left[u]
      /\ traj'[u] = IF u \in out THEN 0 ELSE traj[u]
      /\ silent'[u] = IF u \in out THEN 0 ELSE silent[u]
      /\ uniform' = uniform \ out
    BY DEF Exchange
<1>2. u \in out => u \notin batch /\ left[u] = 0 /\ status[u] \in Ended
    BY <1>t DEF GroupOK, Ended
<1>3. u \in in => u \notin batch /\ u \notin uniform' /\ traj'[u] = 0 /\ silent'[u] = 0
    BY <1>1, <1>2, FreshFacts
<1>4. CASE u \in in
    BY <1>t, <1>1, <1>3, <1>4 DEF GroupOK, NoError
<1>5. CASE u \notin in /\ u \in out
    BY <1>t, <1>1, <1>2, <1>5 DEF GroupOK, NoError
<1>6. CASE u \notin in /\ u \notin out
    BY <1>t, <1>1, <1>6 DEF GroupOK, NoError
<1>7. QED
    BY <1>4, <1>5, <1>6

LEMMA GroupInit == Init => GroupInv
<1> SUFFICES ASSUME Init, NEW u \in Prompts
             PROVE  GroupOK(u) /\ SavedOK(u) /\ (pc = "act" => Lags(u))
    BY DEF GroupInv
<1>1. conf \in Configs /\ Sessions \in Nat \ {0}
    BY ConfigAssumption DEF Init
<1>2. pc # "act"
    BY DEF Init
<1>3. GroupOK(u)
    BY <1>1 DEF Init, GroupOK, NoError
<1>4. SavedOK(u)
    BY <1>1 DEF Init, SavedOK, Bare, NoSnapshot
<1>5. QED
    BY <1>2, <1>3, <1>4

LEMMA GroupStep ==
    ASSUME TypeInv, GroupInv, [Next]_vars
    PROVE  GroupInv'
<1> SUFFICES ASSUME NEW u \in Prompts
             PROVE  (GroupOK(u) /\ SavedOK(u) /\ (pc = "act" => Lags(u)))'
    BY DEF GroupInv
<1>t. TypeOK /\ Bounds /\ Locals /\ conf \in Configs
    BY DEF TypeInv, TypeOK
<1>g. GroupOK(u) /\ SavedOK(u) /\ (pc = "act" => Lags(u))
    BY DEF GroupInv
<1>n. /\ Sessions \in Nat \ {0} /\ left[u] \in 0 .. Sessions /\ traj[u] \in 0 .. Sessions
      /\ silent[u] \in 0 .. Sessions /\ status[u] \in Statuses
    BY <1>t, ConfFacts DEF TypeOK
<1>s. UNCHANGED <<conf, disk>> => SavedOK(u)'
    BY <1>g DEF SavedOK
<1>k. UNCHANGED <<conf, status, left, traj, silent, uniform, batch>> => GroupOK(u)'
    BY <1>g DEF GroupOK, NoError
<1>1. CASE UNCHANGED vars
  <2>1. Lags(u)' <=> Lags(u)
    BY <1>1 DEF vars, queueVars, sampleVars, Lags
  <2>2. QED
    BY <1>g, <1>s, <1>k, <1>1, <2>1 DEF vars, queueVars, trainerVars, crashVars
<1>2. ASSUME NEW w \in Prompts, Worker(w)
      PROVE  (GroupOK(u) /\ SavedOK(u) /\ (pc = "act" => Lags(u)))'
  <2>1. UNCHANGED <<conf, step, pc, snap, batch, disk>>
    BY <1>2 DEF Worker, Start, EndSession, Settle, sampleVars, trainerVars, crashVars
  <2>2. CASE Start(w)
    BY <1>t, <1>g, <1>n, <1>s, <2>1, <2>2
    DEF Start, GroupOK, NoError, Lags, Ended, TypeOK
  <2>3. ASSUME NEW how \in {"written", "empty", "raised"}, EndSession(w, how)
        PROVE  (GroupOK(u) /\ SavedOK(u) /\ (pc = "act" => Lags(u)))'
    BY <1>t, <1>g, <1>n, <1>s, <2>1, <2>3
    DEF EndSession, GroupOK, NoError, Lags, Ended, TypeOK, Statuses
  <2>4. ASSUME NEW same \in BOOLEAN, Settle(w, same)
        PROVE  (GroupOK(u) /\ SavedOK(u) /\ (pc = "act" => Lags(u)))'
    BY <1>t, <1>g, <1>n, <1>s, <2>1, <2>4
    DEF Settle, GroupOK, NoError, Lags, Ended, TypeOK, Statuses
  <2>5. QED
    BY <1>2, <2>2, <2>3, <2>4 DEF Worker
<1>3. CASE AddBatch
  <2>1. PICK in \in SUBSET Prompts : Exchange({}, in) /\ in \subseteq Unused
    BY <1>3, AddSteps
  <2>2. UNCHANGED <<conf, batch, disk>> /\ pc = "add" /\ pc' # "act"
    BY <1>3 DEF AddBatch, crashVars
  <2>3. GroupOK(u)'
    BY <2>1, <2>2, ExchangeGroups
  <2>4. QED
    BY <1>s, <2>2, <2>3
<1>4. CASE Poll
  <2>1. Lags(u)'
    BY <1>t, <1>4 DEF Poll, Lags, queueVars, TypeOK
  <2>2. QED
    BY <1>s, <1>k, <1>4, <2>1 DEF Poll, queueVars, trainerVars, crashVars
<1>5. CASE NextTrigger
    BY <1>s, <1>k, <1>5 DEF NextTrigger, queueVars, trainerVars, crashVars
<1>6. CASE Save
  <2>1. GroupOK(u)' /\ pc' # "act"
    BY <1>k, <1>6 DEF Save, queueVars, trainerVars
  <2>2. CASE conf.tqSaves
    BY <1>6, <1>g, <1>n, <2>1, <2>2 DEF Save, SavedOK, GroupOK, NoError, Live, With, Statuses
  <2>3. CASE ~conf.tqSaves
    BY <1>6, <2>1, <2>3, <1>n DEF Save, SavedOK, Bare, NoSnapshot
  <2>4. QED
    BY <2>1, <2>2, <2>3
<1>7. CASE EndStep
  <2>1. /\ UNCHANGED <<conf, status, left, uniform, disk>>
        /\ traj'[u] = IF u \in batch THEN 0 ELSE traj[u]
        /\ silent'[u] = IF u \in batch THEN 0 ELSE silent[u]
        /\ batch' = {} /\ pc' # "act"
    BY <1>7 DEF EndStep, crashVars
  <2>2. GroupOK(u)'
    BY <1>g, <1>n, <2>1 DEF GroupOK, NoError
  <2>3. QED
    BY <1>s, <2>1, <2>2
<1>8. CASE Resume
  <2>1. /\ UNCHANGED <<conf, disk>> /\ uniform' = disk.uniform /\ batch' = {} /\ pc' # "act"
    BY <1>8 DEF Resume
  <2>2. /\ disk.status[u] \in Statuses /\ disk.traj[u] \in 0 .. Sessions
        /\ disk.silent[u] \in 0 .. Sessions
    BY <1>t DEF TypeOK
  <2>3. LET again == disk.status[u] \in {"pending", "running"} IN
        /\ status'[u] = IF again THEN "pending" ELSE disk.status[u]
        /\ left'[u] = IF again THEN Sessions ELSE 0
        /\ traj'[u] = IF again THEN 0 ELSE disk.traj[u]
        /\ silent'[u] = IF again THEN 0 ELSE disk.silent[u]
    BY <1>8 DEF Resume, Restored
  <2>4. GroupOK(u)'
    BY <1>g, <1>n, <2>1, <2>2, <2>3 DEF GroupOK, NoError, SavedOK, Statuses
  <2>5. QED
    BY <1>s, <2>1, <2>4
<1>9. ASSUME NEW out \in SUBSET Prompts, NEW in \in SUBSET Prompts, Exchanged(out, in)
      PROVE  (GroupOK(u) /\ SavedOK(u) /\ (pc = "act" => Lags(u)))'
  <2>1. /\ UNCHANGED <<conf, batch, disk>> /\ pc = "act" /\ pc' = "poll" /\ Exchange(out, in)
        /\ in \subseteq Unused \cup out /\ out \subseteq Seen(Ended)
    BY <1>9 DEF Exchanged, trainerVars, crashVars
  <2>2. \A v \in out : status[v] \in Ended
    BY <2>1, SnapshotFacts
  <2>3. GroupOK(u)'
    BY <2>1, <2>2, ExchangeGroups
  <2>4. QED
    BY <1>s, <2>1, <2>3
<1>10. ASSUME NEW S \in SUBSET Prompts, NEW out \in SUBSET Prompts, Selected(S, out)
       PROVE  (GroupOK(u) /\ SavedOK(u) /\ (pc = "act" => Lags(u)))'
  <2>1. /\ status'[u] = IF u \in S \cup out THEN "none" ELSE status[u]
        /\ traj'[u] = IF u \in out THEN 0 ELSE traj[u]
        /\ silent'[u] = IF u \in out THEN 0 ELSE silent[u]
        /\ uniform' = uniform \ (S \cup out)
        /\ batch' = batch \cup S
        /\ pc = "act" /\ pc' # "act"
        /\ UNCHANGED <<conf, left, disk>>
        /\ S \subseteq Sampleable /\ out \subseteq Seen(Ended) /\ S \cap out = {}
    BY <1>10 DEF Selected, Select, crashVars
  <2>2. u \in S \cup out => status[u] = snap[u] /\ status[u] \in Ended
    BY <2>1, SeenParts, SnapshotFacts
  <2>3. conf.async /\ u \in S => status[u] = "finished" /\ (conf.dapo => traj[u] > 0)
    <3>1. conf.async /\ u \in S => u \notin Seen({"failure"}) /\ u \in Seen(Ended)
        BY <2>1, SeenParts
    <3>2. conf.async => MissingMetric = {}
        BY <1>10 DEF Selected
    <3>3. conf.async /\ u \in S => u \in Seen({"finished"})
        BY <3>1 DEF Seen, Ended
    <3>4. conf.async /\ conf.dapo /\ u \in S => traj[u] > 0
        BY <1>n, <3>2, <3>3 DEF MissingMetric
    <3>5. QED
        BY <2>2, <3>3, <3>4 DEF Seen
  <2>4. GroupOK(u)'
    BY <1>g, <1>n, <2>1, <2>2, <2>3 DEF GroupOK, NoError, Ended
  <2>5. QED
    BY <1>s, <2>1, <2>4
<1>11. CASE RaiseMissingMetric
    BY <1>s, <1>k, <1>11 DEF RaiseMissingMetric, queueVars, trainerVars, crashVars
<1>12. QED
    BY <1>1, <1>2, <1>3, <1>4, <1>5, <1>6, <1>7, <1>8, <1>9, <1>10, <1>11, StepCases

-----------------------------------------------------------------------------
(* Counting the groups in the queue.                                        *)

LEMMA Products ==
    \A a, b \in Int : /\ a * b \in Int /\ (a - 1) * b = a * b - b /\ (a + 1) * b = a * b + b
                      /\ 0 * b = 0 /\ 1 * b = b
OBVIOUS

LEMMA Stocks ==
    \A w, n, t \in Nat : /\ w * n * t \in Nat /\ w * (n + 1) * t = w * n * t + w * t
                         /\ w * 0 * t = 0
OBVIOUS

LEMMA QueueSets ==
    /\ Live \in SUBSET Prompts /\ Unused \in SUBSET Prompts /\ Usable \in SUBSET Prompts
    /\ DiskLive \in SUBSET Prompts /\ Leaked \in SUBSET Prompts /\ DiskLeaked \in SUBSET Prompts
    /\ Sampleable \in SUBSET Prompts /\ Evicted \in SUBSET Prompts /\ Failed \in SUBSET Prompts
    /\ With(Ended) \in SUBSET Prompts /\ InFlight \in SUBSET Prompts
BY SeenParts DEF Live, Unused, Usable, DiskLive, Leaked, DiskLeaked, With, InFlight

LEMMA CountExchanged ==
    ASSUME TypeInv, NEW out \in SUBSET Prompts, NEW in \in SUBSET Prompts, Exchange(out, in),
           out \subseteq Live, in \subseteq Unused \cup out
    PROVE  /\ Live' = (Live \ out) \cup in
           /\ Cardinality(Live') = Cardinality(Live) - Cardinality(out) + Cardinality(in)
<1>1. status \in [Prompts -> Statuses]
    BY DEF TypeInv, TypeOK
<1>2. Live' = (Live \ out) \cup in
    BY <1>1 DEF Live, With, Exchange, Statuses
<1>3. (Live \ out) \cap in = {}
    BY DEF Live, With, Unused, Statuses
<1>4. /\ Cardinality(Live \ out) = Cardinality(Live) - Cardinality(out)
      /\ Live \ out \in SUBSET Prompts
    BY QueueSets, Without
<1>5. Cardinality((Live \ out) \cup in) = Cardinality(Live \ out) + Cardinality(in)
    BY <1>3, <1>4, Together
<1>6. QED
    BY <1>2, <1>4, <1>5

LEMMA CountSelected ==
    ASSUME TypeInv, GroupInv, NEW S \in SUBSET Prompts, NEW out \in SUBSET Prompts,
           Selected(S, out)
    PROVE  /\ Live' = Live \ (S \cup out) /\ S \cup out \subseteq Live
           /\ Cardinality(Live') = Cardinality(Live) - BatchSize - Cardinality(out)
<1>1. /\ S \subseteq Sampleable /\ Cardinality(S) = BatchSize /\ out \subseteq Seen(Ended)
      /\ S \cap out = {} /\ pc = "act"
      /\ status' = [u \in Prompts |-> IF u \in S \cup out THEN "none" ELSE status[u]]
    BY DEF Selected, Select
<1>2. S \cup out \subseteq Live
    BY <1>1, SeenParts, SnapshotFacts
<1>3. Live' = Live \ (S \cup out)
    BY <1>1 DEF Live, With, Statuses
<1>4. Cardinality(S \cup out) = BatchSize + Cardinality(out)
    BY <1>1, Together
<1>5. Cardinality(Live \ (S \cup out)) = Cardinality(Live) - Cardinality(S \cup out)
    BY <1>2, QueueSets, Without
<1>6. /\ Cardinality(Live) \in Nat /\ Cardinality(out) \in Nat /\ BatchSize \in Nat
    BY <1>1, QueueSets, Finite
<1>7. QED
    BY <1>2, <1>3, <1>4, <1>5, <1>6

LEMMA WorkersKeepStock ==
    ASSUME TypeInv, NEW w \in Prompts, Worker(w)
    PROVE  Live' = Live
<1>1. status \in [Prompts -> Statuses]
    BY DEF TypeInv, TypeOK
<1>2. QED
    BY <1>1 DEF Worker, Start, EndSession, Settle, Live, With, Statuses

LEMMA StockInit == Init => StockInv
<1> SUFFICES ASSUME Init PROVE StockInv
    OBVIOUS
<1>1. conf \in Configs
    BY DEF Init
<1>2. conf.warmup \in Nat /\ conf.trainBatch \in Nat
    BY <1>1, ConfFacts
<1>3. Live = {} /\ DiskLive = {}
    BY DEF Init, Live, With, DiskLive, Bare, NoSnapshot
<1>4. Stock(disk.warmups) = 0 /\ Stock(1) = conf.warmup * conf.trainBatch
    BY <1>2, Stocks DEF Init, Bare, Stock
<1>5. toAdd * conf.trainBatch = conf.warmup * conf.trainBatch + conf.trainBatch
    BY <1>2, Products DEF Init
<1>6. warmups = 1 /\ pc \in {"done", "add"} /\ conf.warmup * conf.trainBatch \in Int
    BY <1>2, Products DEF Init
<1>7. QED
    BY <1>2, <1>3, <1>4, <1>5, <1>6, NoneCount DEF StockInv, Sampling

LEMMA StockStep ==
    ASSUME TypeInv, GroupInv, StockInv, TypeInv', [Next]_vars
    PROVE  StockInv'
<1> SUFFICES ASSUME conf.async PROVE StockInv'
    <2>1. conf' = conf
        BY DEF Next, Trainer, Stopped, Worker, Start, EndSession, Settle, AddBatch, Poll,
            NextTrigger, Save, EndStep, Resume, SampleAsync, SampleSync, SampleSyncDapo,
            RaiseMissingMetric, Refill, WaitForNextPoll, Select, SelectDrained, vars
    <2>2. QED
        BY <2>1 DEF StockInv
<1>t. TypeOK /\ Bounds /\ Locals /\ conf \in Configs
    BY DEF TypeInv, TypeOK
<1>n. /\ conf.warmup \in Nat /\ conf.trainBatch \in Nat /\ BatchSize \in Nat
      /\ conf.syncStep * BatchSize = conf.trainBatch /\ conf.syncStep \in Nat
      /\ trigger \in Nat /\ toAdd \in Nat /\ warmups \in Nat /\ disk.warmups \in Nat
      /\ resumes \in Nat
    BY <1>t, ConfFacts DEF TypeOK
<1>m. BatchSize \in Nat /\ conf.trainBatch \in Nat
    BY <1>n
<1>c. Cardinality(Live) \in Nat /\ Cardinality(DiskLive) \in Nat
    BY QueueSets, Finite
<1>p. /\ Taken \in Int /\ toAdd * conf.trainBatch \in Int
      /\ Stock(warmups) \in Nat /\ Stock(disk.warmups) \in Nat
    BY <1>n, Products, Stocks DEF Taken, Stock
<1>s. /\ pc = "add" => Cardinality(Live) + toAdd * conf.trainBatch
                         = Stock(warmups) + conf.trainBatch
      /\ Sampling => Cardinality(Live) + Taken = Stock(warmups) + conf.trainBatch
      /\ pc = "train" => Cardinality(Live) + Taken + BatchSize = Stock(warmups) + conf.trainBatch
      /\ pc = "saved" => Cardinality(Live) = Stock(warmups)
      /\ Cardinality(DiskLive) = Stock(disk.warmups)
    BY DEF StockInv
<1>d. UNCHANGED <<conf, disk>> => DiskLive' = DiskLive /\ Stock(disk.warmups)' = Stock(disk.warmups)
    BY DEF DiskLive, Stock
<1>w. UNCHANGED <<conf, warmups>> => Stock(warmups)' = Stock(warmups)
    BY DEF Stock
<1>b. UNCHANGED conf => BatchSize' = BatchSize
    BY DEF BatchSize
<1>x. UNCHANGED <<conf, trigger>> => Taken' = Taken
    BY DEF Taken, BatchSize
<1>1. CASE UNCHANGED vars
  <2>1. UNCHANGED <<conf, disk, warmups, trigger, toAdd, pc, status>>
    BY <1>1 DEF vars, queueVars, trainerVars, crashVars
  <2>2. Live' = Live
    BY <2>1 DEF Live, With
  <2>3. QED
    BY <1>s, <1>d, <1>w, <1>b, <1>x, <2>1, <2>2 DEF StockInv, Sampling
<1>2. ASSUME NEW u \in Prompts, Worker(u) PROVE StockInv'
  <2>1. UNCHANGED <<conf, disk, warmups, trigger, toAdd, pc>>
    BY <1>2 DEF Worker, Start, EndSession, Settle, trainerVars, crashVars
  <2>2. Live' = Live
    BY <1>2, WorkersKeepStock
  <2>3. QED
    BY <1>s, <1>d, <1>w, <1>b, <1>x, <2>1, <2>2 DEF StockInv, Sampling
<1>3. CASE AddBatch
  <2>1. PICK in \in SUBSET Prompts :
            in \subseteq Unused /\ Cardinality(in) = conf.trainBatch /\ Exchange({}, in)
    BY <1>3, AddSteps
  <2>2. /\ UNCHANGED <<conf, trigger, disk, warmups>>
        /\ pc = "add" /\ toAdd' = toAdd - 1 /\ pc' = IF toAdd = 1 THEN "poll" ELSE "add"
    BY <1>3 DEF AddBatch, crashVars
  <2>3. Cardinality(Live') = Cardinality(Live) + conf.trainBatch
    BY <1>c, <1>m, <2>1, CountExchanged, NoneCount
  <2>4. /\ (toAdd - 1) * conf.trainBatch = toAdd * conf.trainBatch - conf.trainBatch
        /\ toAdd = 1 => toAdd * conf.trainBatch = conf.trainBatch
        /\ Taken = 0
    <3>1. toAdd \in Int /\ conf.trainBatch \in Int /\ BatchSize \in Int
        BY <1>n
    <3>2. (toAdd - 1) * conf.trainBatch = toAdd * conf.trainBatch - conf.trainBatch
        BY <3>1, Products
    <3>3. trigger = 0 /\ 0 * BatchSize = 0 /\ 1 * conf.trainBatch = conf.trainBatch
        BY <1>t, <2>2, <3>1, Products DEF Bounds
    <3>4. QED
        BY <3>2, <3>3 DEF Taken
  <2>5. Cardinality(Live') + (toAdd - 1) * conf.trainBatch = Stock(warmups) + conf.trainBatch
    BY <1>m, <1>c, <1>p, <1>s, <2>2, <2>3, <2>4
  <2>6. toAdd = 1 => Cardinality(Live') + Taken = Stock(warmups) + conf.trainBatch
    BY <1>m, <1>c, <1>p, <1>s, <2>2, <2>3, <2>4
  <2>7. QED
    BY <1>s, <1>d, <1>w, <1>x, <2>2, <2>5, <2>6 DEF StockInv, Sampling
<1>4. CASE Poll
  <2>1. UNCHANGED <<conf, disk, warmups, trigger, status>> /\ pc = "poll" /\ pc' = "act"
    BY <1>4 DEF Poll, queueVars, trainerVars, crashVars
  <2>2. Live' = Live
    BY <2>1 DEF Live, With
  <2>3. QED
    BY <1>s, <1>d, <1>w, <1>x, <2>1, <2>2 DEF StockInv, Sampling
<1>5. CASE NextTrigger
  <2>1. /\ UNCHANGED <<conf, disk, warmups, status>> /\ pc = "train" /\ pc' = "poll"
        /\ trigger' = trigger + 1
    BY <1>5 DEF NextTrigger, queueVars, crashVars
  <2>2. Live' = Live
    BY <2>1 DEF Live, With
  <2>3. Taken' = Taken + BatchSize
    BY <1>n, <1>b, <2>1, Products DEF Taken
  <2>4. QED
    BY <1>m, <1>c, <1>p, <1>s, <1>d, <1>w, <2>1, <2>2, <2>3 DEF StockInv, Sampling
<1>6. CASE Save
  <2>1. /\ UNCHANGED <<conf, warmups, status>> /\ pc = "train" /\ pc' = "saved"
        /\ trigger = conf.syncStep - 1
    BY <1>6 DEF Save, queueVars
  <2>2. Live' = Live
    BY <2>1 DEF Live, With
  <2>3. Taken + BatchSize = conf.trainBatch
    BY <1>n, <2>1, Products DEF Taken
  <2>4. Cardinality(Live) = Stock(warmups)
    BY <1>m, <1>c, <1>p, <1>s, <2>1, <2>3
  <2>5. Cardinality(DiskLive') = Stock(disk.warmups)'
    <3>1. CASE conf.tqSaves
      <4>1. disk'.status = status /\ disk'.warmups = warmups
        BY <1>6, <3>1 DEF Save
      <4>2. DiskLive' = Live
        BY <1>t, <4>1 DEF DiskLive, Live, With, TypeOK, Statuses
      <4>3. QED
        BY <2>1, <2>4, <4>1, <4>2 DEF Stock
    <3>2. CASE ~conf.tqSaves
      <4>1. disk'.status = NoSnapshot /\ disk'.warmups = 0
        BY <1>6, <3>2 DEF Save, Bare
      <4>2. DiskLive' = {}
        BY <4>1 DEF DiskLive, NoSnapshot
      <4>3. Stock(disk.warmups)' = 0
        BY <1>n, <2>1, <4>1, Stocks DEF Stock
      <4>4. QED
        BY <4>2, <4>3, NoneCount
    <3>3. QED
        BY <3>1, <3>2
  <2>6. QED
    BY <1>w, <2>1, <2>2, <2>4, <2>5 DEF StockInv, Sampling
<1>7. CASE EndStep
  <2>1. /\ UNCHANGED <<conf, disk, warmups, status>> /\ pc' \in {"done", "add"} /\ toAdd' = 1
        /\ pc = "saved" \/ (pc = "train" /\ trigger = conf.syncStep - 1)
    BY <1>7 DEF EndStep, crashVars
  <2>2. Live' = Live
    BY <2>1 DEF Live, With
  <2>3. Cardinality(Live) = Stock(warmups)
    <3>1. CASE pc = "saved"
        BY <1>s, <3>1
    <3>2. CASE pc = "train" /\ trigger = conf.syncStep - 1
      <4>1. Taken + BatchSize = conf.trainBatch
        BY <1>n, <3>2, Products DEF Taken
      <4>2. QED
        BY <1>m, <1>c, <1>p, <1>s, <3>2, <4>1
    <3>3. QED
        BY <2>1, <3>1, <3>2
  <2>4. 1 * conf.trainBatch = conf.trainBatch
    BY <1>n, Products
  <2>5. QED
    BY <1>s, <1>d, <1>w, <2>1, <2>2, <2>3, <2>4 DEF StockInv, Sampling
<1>8. CASE Resume
  <2>1. /\ UNCHANGED <<conf, disk>> /\ pc' \in {"done", "add"} /\ toAdd' = conf.warmup + 1
        /\ warmups' = disk.warmups + 1
        /\ \A u \in Prompts : status'[u] = IF disk.status[u] \in {"pending", "running"}
                                           THEN "pending" ELSE disk.status[u]
    BY <1>8 DEF Resume
  <2>2. Live' = DiskLive
    <3>1. disk.status \in [Prompts -> Statuses]
        BY <1>t DEF TypeOK
    <3>2. QED
        BY <2>1, <3>1 DEF Live, With, DiskLive, Statuses
  <2>3. Stock(warmups)' = Stock(disk.warmups) + conf.warmup * conf.trainBatch
    <3>1. /\ conf.warmup \in Nat /\ conf.trainBatch \in Nat /\ disk.warmups \in Nat
        BY <1>n
    <3>2. conf.warmup * (disk.warmups + 1) * conf.trainBatch
            = conf.warmup * disk.warmups * conf.trainBatch + conf.warmup * conf.trainBatch
        BY <3>1, Stocks
    <3>3. Stock(warmups)' = conf.warmup * (disk.warmups + 1) * conf.trainBatch
        BY <2>1 DEF Stock
    <3>4. QED
        BY <3>2, <3>3 DEF Stock
  <2>4. (conf.warmup + 1) * conf.trainBatch = conf.warmup * conf.trainBatch + conf.trainBatch
        /\ conf.warmup * conf.trainBatch \in Int
    BY <1>n, Products
  <2>5. Cardinality(Live') + (conf.warmup + 1) * conf.trainBatch
            = Stock(disk.warmups) + conf.warmup * conf.trainBatch + conf.trainBatch
    BY <1>m, <1>c, <1>p, <1>s, <2>2, <2>4
  <2>6. QED
    BY <1>s, <1>d, <2>1, <2>3, <2>5 DEF StockInv, Sampling
<1>9. CASE SampleAsync
  <2>1. ASSUME NEW out \in SUBSET Prompts, NEW in \in SUBSET Prompts, Exchanged(out, in),
               Cardinality(in) = Cardinality(out)
        PROVE  StockInv'
    <3>1. /\ UNCHANGED <<conf, disk, warmups, trigger>> /\ pc = "act" /\ pc' = "poll"
          /\ out \subseteq Seen(Ended) /\ in \subseteq Unused \cup out /\ Exchange(out, in)
        BY <2>1 DEF Exchanged, trainerVars, crashVars
    <3>2. out \subseteq Live
        BY <3>1, SnapshotFacts
    <3>3. Cardinality(out) \in Nat
        BY Finite
    <3>4. Cardinality(Live') = Cardinality(Live)
        BY <1>c, <2>1, <3>1, <3>2, <3>3, CountExchanged
    <3>5. QED
        BY <1>s, <1>d, <1>w, <1>x, <3>1, <3>4 DEF StockInv, Sampling
  <2>2. ASSUME NEW S \in SUBSET Prompts, Selected(S, {}) PROVE StockInv'
    <3>1. /\ UNCHANGED <<conf, disk, warmups, trigger>> /\ pc = "act"
          /\ pc' \in {"train", "failed"}
        BY <2>2 DEF Selected, Select, crashVars
    <3>2. Cardinality(Live') = Cardinality(Live) - BatchSize
        BY <1>c, <1>m, <2>2, CountSelected, NoneCount
    <3>3. QED
        BY <1>c, <1>m, <1>p, <1>s, <1>d, <1>w, <1>x, <1>b, <3>1, <3>2 DEF StockInv, Sampling
  <2>3. QED
    BY <1>9, <2>1, <2>2, AsyncSteps
<1>10. CASE RaiseMissingMetric
    BY <1>s, <1>d, <1>w, <1>10 DEF RaiseMissingMetric, StockInv, Sampling, Live, With,
        queueVars, trainerVars, crashVars
<1>11. QED
    BY <1>1, <1>2, <1>3, <1>4, <1>5, <1>6, <1>7, <1>8, <1>9, <1>10
    DEF Next, Trainer, Stopped, SampleSync, SampleSyncDapo

-----------------------------------------------------------------------------
(* A synchronous sample can be filled.                                      *)

(* The workers add to what is usable, and change nothing of what a          *)
(* synchronous poll counted.                                                *)
LEMMA WorkersKeepSample ==
    ASSUME TypeInv, GroupInv, ~conf.async, NEW w \in Prompts, Worker(w)
    PROVE  /\ Usable \subseteq Usable'
           /\ pc = "act" => Sampleable' = Sampleable
<1>t. status \in [Prompts -> Statuses] /\ traj \in [Prompts -> 0 .. Sessions] /\ snap \in [Prompts -> Statuses]
    BY DEF TypeInv, TypeOK
<1>1. UNCHANGED <<conf, pc, snap>>
    BY DEF Worker, Start, EndSession, Settle, sampleVars
<1>2. \A u \in Prompts : status[u] \in Ended =>
            status'[u] = status[u] /\ traj'[u] = traj[u] /\ (u \in uniform' <=> u \in uniform)
  <2>1. status[w] \in Ended => left[w] = 0
    BY DEF GroupInv, GroupOK, Ended
  <2>2. QED
    BY <1>t, <2>1 DEF Worker, Start, EndSession, Settle, Ended
<1>3. Usable \subseteq Usable'
    BY <1>1, <1>2 DEF Usable, With, Ended
<1>4. ASSUME pc = "act" PROVE Sampleable' = Sampleable
  <2>1. \A u \in Seen(Ended) : traj'[u] = traj[u] /\ (u \in uniform' <=> u \in uniform)
    BY <1>2, <1>4, SnapshotFacts DEF Seen
  <2>2. Filtered' = Filtered
    BY <1>1, <2>1 DEF Filtered, Seen, Ended
  <2>3. Failed' = Failed
    BY <1>1, <2>1 DEF Failed, Seen, Ended
  <2>4. Stale' = Stale
    BY <1>1 DEF Stale
  <2>5. Evicted' = Evicted
    BY <2>2, <2>3, <2>4 DEF Evicted
  <2>6. QED
    BY <1>1, <2>5 DEF Sampleable, Seen
<1>5. QED
    BY <1>3, <1>4

LEMMA FillInit == Init => FillInv
<1> SUFFICES ASSUME Init PROVE FillInv
    OBVIOUS
<1>1. Live = {} /\ pc \in {"done", "add"}
    BY DEF Init, Live, With
<1>2. QED
    BY <1>1 DEF FillInv, Sampling

LEMMA FillStep ==
    ASSUME TypeInv, GroupInv, FillInv, [Next]_vars
    PROVE  FillInv'
<1> SUFFICES ASSUME ~conf.async PROVE FillInv'
    <2>1. conf' = conf
        BY DEF Next, Trainer, Stopped, Worker, Start, EndSession, Settle, AddBatch, Poll,
            NextTrigger, Save, EndStep, Resume, SampleAsync, SampleSync, SampleSyncDapo,
            RaiseMissingMetric, Refill, WaitForNextPoll, Select, SelectDrained, vars
    <2>2. QED
        BY <2>1 DEF FillInv
<1>t. TypeOK /\ Bounds /\ Locals /\ conf \in Configs
    BY DEF TypeInv, TypeOK
<1>n. /\ conf.trainBatch \in Nat \ {0} /\ BatchSize = conf.trainBatch /\ conf.syncStep = 1
      /\ conf.warmup = 0 /\ ~conf.tqSaves /\ credit \in Nat /\ draining \in BOOLEAN
      /\ trigger = 0 /\ toAdd \in 0 .. 1 /\ conf.dapo \in BOOLEAN
    BY <1>t, ConfFacts DEF TypeOK
<1>c. /\ Cardinality(Live) \in Nat /\ Cardinality(Usable) \in Nat
      /\ Cardinality(Sampleable) \in Nat
    BY QueueSets, Finite
<1>f. /\ ~Sampling /\ pc \notin {"done", "failed"} => Live = {}
      /\ Sampling /\ ~conf.dapo =>
              Cardinality(Live) = conf.trainBatch /\ credit = 0 /\ draining = FALSE
      /\ Sampling => Cardinality(Live) + credit >= conf.trainBatch
      /\ Sampling /\ draining => Cardinality(Usable) >= conf.trainBatch
      /\ pc = "act" /\ draining => Enough
    BY DEF FillInv
<1>1. CASE UNCHANGED vars
  <2>1. UNCHANGED <<conf, status, traj, uniform, step, globalSteps, pc, snap, credit, draining>>
    BY <1>1 DEF vars, queueVars, trainerVars, sampleVars
  <2>2. Live' = Live /\ Usable' = Usable
    BY <2>1 DEF Live, With, Usable
  <2>3. Sampleable' = Sampleable
    BY <2>1 DEF Sampleable, Seen, Evicted, Stale, Filtered, Failed, Span
  <2>4. Enough' = Enough
    BY <2>1, <2>3 DEF Enough, BatchSize
  <2>5. QED
    BY <1>f, <2>1, <2>2, <2>4 DEF FillInv, Sampling
<1>2. ASSUME NEW u \in Prompts, Worker(u) PROVE FillInv'
  <2>1. UNCHANGED <<conf, pc, snap, credit, draining>>
    BY <1>2 DEF Worker, Start, EndSession, Settle, sampleVars
  <2>2. Live' = Live
    BY <1>2, WorkersKeepStock
  <2>3. Usable \subseteq Usable' /\ (pc = "act" => Sampleable' = Sampleable)
    BY <1>2, WorkersKeepSample
  <2>4. Usable' \in SUBSET Prompts
    BY DEF Usable, With
  <2>5. Cardinality(Usable) <= Cardinality(Usable') /\ Cardinality(Usable') \in Nat
    BY <2>3, <2>4, QueueSets, Smaller, Finite
  <2>6. pc = "act" => Enough' = Enough
    BY <2>1, <2>3 DEF Enough, BatchSize
  <2>7. draining /\ Sampling => Cardinality(Usable') >= conf.trainBatch
    BY <1>f, <1>c, <1>n, <2>5
  <2>8. QED
    BY <1>f, <2>1, <2>2, <2>6, <2>7 DEF FillInv, Sampling
<1>3. CASE AddBatch
  <2>1. PICK in \in SUBSET Prompts :
            in \subseteq Unused /\ Cardinality(in) = conf.trainBatch /\ Exchange({}, in)
    BY <1>3, AddSteps
  <2>2. /\ UNCHANGED <<conf, credit, draining>> /\ pc = "add"
        /\ pc' = IF toAdd = 1 THEN "poll" ELSE "add"
    BY <1>3 DEF AddBatch, sampleVars
  <2>3. pc' = "poll" /\ credit = 0 /\ draining = FALSE /\ Live = {}
    BY <1>t, <1>n, <1>f, <2>2 DEF Bounds, Locals, Sampling
  <2>4. Cardinality(Live') = conf.trainBatch
    BY <1>n, <2>1, <2>3, CountExchanged, NoneCount
  <2>5. QED
    BY <1>n, <2>2, <2>3, <2>4 DEF FillInv, Sampling
<1>4. CASE Poll
  <2>1. /\ UNCHANGED <<conf, status, traj, uniform, credit, draining>> /\ pc = "poll"
        /\ pc' = "act" /\ snap' = status
    BY <1>4 DEF Poll, queueVars
  <2>2. Live' = Live /\ Usable' = Usable
    BY <2>1 DEF Live, With, Usable
  <2>3. ASSUME draining PROVE Enough'
    <3>1. conf.dapo
        BY <1>f, <1>n, <2>1, <2>3 DEF Sampling
    <3>2. \A u \in uniform : status[u] = "finished"
        BY <1>t DEF GroupInv, GroupOK, TypeOK
    <3>3. Stale' = {}
        BY <2>1 DEF Stale
    <3>4. Filtered' = With({"finished"}) \cap uniform
        BY <2>1, <3>1 DEF Filtered, Seen, With
    <3>5. Failed' = IF conf.refillFailed THEN {u \in With({"failure"}) : traj[u] = 0} ELSE {}
        BY <2>1 DEF Failed, Seen, With
    <3>6. Sampleable' = With(Ended) \ (Filtered' \cup Failed')
        BY <2>1, <3>3 DEF Sampleable, Evicted, Seen, With, Ended
    <3>7. Sampleable' = Usable
        BY <3>2, <3>4, <3>5, <3>6 DEF Usable, With, Ended
    <3>8. Cardinality(Usable) >= BatchSize
        BY <1>f, <1>n, <2>1, <2>3 DEF Sampling
    <3>9. QED
        BY <2>1, <3>7, <3>8 DEF Enough, BatchSize
  <2>4. QED
    BY <1>f, <2>1, <2>2, <2>3 DEF FillInv, Sampling
<1>5. CASE NextTrigger
    BY <1>n, <1>5 DEF NextTrigger
<1>6. CASE Save \/ EndStep
  <2>1. /\ UNCHANGED status /\ pc \in {"train", "saved"} /\ pc' \in {"saved", "done", "add"}
    BY <1>6 DEF Save, EndStep, queueVars
  <2>2. Live' = {}
    BY <1>f, <2>1 DEF Live, With, Sampling
  <2>3. QED
    BY <2>1, <2>2 DEF FillInv, Sampling
<1>7. CASE Resume
  <2>1. /\ pc' \in {"done", "add"}
        /\ \A u \in Prompts : status'[u] = IF disk.status[u] \in {"pending", "running"}
                                           THEN "pending" ELSE disk.status[u]
    BY <1>7 DEF Resume
  <2>2. \A u \in Prompts : disk.status[u] = "none"
    BY <1>n DEF GroupInv, SavedOK
  <2>3. Live' = {}
    BY <2>1, <2>2 DEF Live, With
  <2>4. QED
    BY <2>1, <2>3 DEF FillInv, Sampling
<1>8. CASE SampleSync
  <2>s. ~conf.dapo /\ pc = "act"
    BY <1>8 DEF SampleSync
  <2>f. Cardinality(Live) = conf.trainBatch /\ credit = 0 /\ draining = FALSE
    BY <1>f, <2>s DEF Sampling
  <2>1. ASSUME NEW out \in SUBSET Prompts, NEW in \in SUBSET Prompts, Exchanged(out, in),
               Cardinality(in) = Cardinality(out), credit' = credit, draining' = draining
        PROVE  FillInv'
    <3>1. /\ UNCHANGED conf /\ pc' = "poll" /\ pc = "act"
          /\ out \subseteq Seen(Ended) /\ in \subseteq Unused \cup out /\ Exchange(out, in)
        BY <2>1 DEF Exchanged
    <3>2. out \subseteq Live /\ Cardinality(out) \in Nat
        BY <3>1, SnapshotFacts, Finite
    <3>3. Cardinality(Live') = Cardinality(Live)
        BY <1>c, <2>1, <3>1, <3>2, CountExchanged
    <3>4. QED
        BY <1>n, <2>f, <2>1, <3>1, <3>3 DEF FillInv, Sampling
  <2>2. ASSUME NEW S \in SUBSET Prompts, Selected(S, Failed) PROVE FillInv'
    <3>1. Failed \in SUBSET Prompts /\ Live \in SUBSET Prompts
        BY QueueSets
    <3>2. Live' = Live \ (S \cup Failed) /\ S \subseteq Live
        BY <2>2, <3>1, CountSelected
    <3>3. Cardinality(S) = Cardinality(Live)
        BY <1>n, <2>f, <2>2 DEF Selected
    <3>4. Live' = {} /\ pc' \in {"train", "failed"}
        BY <2>2, <3>1, <3>2, <3>3, Smaller DEF Selected, Select
    <3>5. QED
        BY <3>4 DEF FillInv, Sampling
  <2>3. QED
    BY <1>8, <2>1, <2>2, SyncSteps
<1>9. CASE SampleSyncDapo
  <2>s. conf.dapo /\ pc = "act"
    BY <1>9 DEF SampleSyncDapo
  <2>1. ASSUME NEW in \in SUBSET Prompts, Exchanged(Evicted, in),
               \/ Enough /\ in = {} /\ credit' = 0 /\ draining' = TRUE
               \/ /\ ~Enough /\ draining = FALSE /\ draining' = FALSE
                  /\ Cardinality(in) + credit' = Credit
               \/ ~Enough /\ draining = TRUE
        PROVE  FillInv'
    <3>1. /\ UNCHANGED conf /\ pc' = "poll" /\ credit' \in Nat
          /\ in \subseteq Unused \cup Evicted /\ Exchange(Evicted, in)
        BY <2>1 DEF Exchanged
    <3>2. /\ Evicted \subseteq Live /\ Sampleable \subseteq Live \ Evicted
          /\ Evicted \in SUBSET Prompts
        BY <2>s, SeenParts, SnapshotFacts, QueueSets
    <3>3. Live' = (Live \ Evicted) \cup in /\ Live' \in SUBSET Prompts
          /\ Cardinality(Live') = Cardinality(Live) - Cardinality(Evicted) + Cardinality(in)
        BY <3>1, <3>2, QueueSets, CountExchanged
    <3>4. CASE Enough /\ in = {} /\ credit' = 0 /\ draining' = TRUE
      <4>1. Sampleable \subseteq Usable'
        <5>1. /\ status' = [u \in Prompts |-> IF u \in Evicted THEN "none" ELSE status[u]]
              /\ traj' = [u \in Prompts |-> IF u \in Evicted THEN 0 ELSE traj[u]]
              /\ uniform' = uniform \ Evicted
            BY <3>1, <3>4 DEF Exchange
        <5>2. ASSUME NEW u \in Sampleable PROVE u \in Usable'
            <6>1. u \in Prompts /\ u \in Seen(Ended) /\ u \notin Evicted
                BY QueueSets, SeenParts
            <6>2. status[u] = snap[u] /\ status[u] \in Ended
                BY <2>s, <6>1, SnapshotFacts
            <6>3. u \notin uniform
                <7>1. u \in uniform => status[u] = "finished"
                    BY <6>1 DEF GroupInv, GroupOK
                <7>2. QED
                    BY <2>s, <6>1, <6>2, <7>1 DEF Evicted, Filtered, Seen
            <6>4. ~(conf.refillFailed /\ status[u] = "failure" /\ traj[u] = 0)
                BY <6>1, <6>2 DEF Evicted, Failed, Seen
            <6>5. QED
                BY <3>1, <5>1, <6>1, <6>2, <6>3, <6>4 DEF Usable, With
        <5>3. QED
            BY <5>2
      <4>2. Usable' \in SUBSET Prompts
        BY DEF Usable, With
      <4>3. /\ Cardinality(Sampleable) <= Cardinality(Usable')
            /\ Cardinality(Sampleable) <= Cardinality(Live')
            /\ Cardinality(Usable') \in Nat /\ Cardinality(Live') \in Nat
        BY <3>2, <3>3, <4>1, <4>2, QueueSets, Smaller, Finite
      <4>4. Cardinality(Sampleable) >= conf.trainBatch
        BY <1>n, <3>4 DEF Enough
      <4>5. Cardinality(Usable') >= conf.trainBatch /\ Cardinality(Live') + 0 >= conf.trainBatch
        BY <1>c, <1>n, <4>3, <4>4
      <4>6. QED
        BY <2>s, <3>1, <3>4, <4>5 DEF FillInv, Sampling
    <3>5. CASE /\ ~Enough /\ draining = FALSE /\ draining' = FALSE
               /\ Cardinality(in) + credit' = Credit
      <4>1. /\ Cardinality(Filtered) \in Nat /\ Cardinality(Failed) \in Nat
            /\ Cardinality(Evicted) \in Nat /\ Cardinality(in) \in Nat
            /\ Filtered \in SUBSET Prompts /\ Failed \in SUBSET Prompts
        BY SeenParts, QueueSets, Finite
      <4>2. Evicted = Filtered \cup Failed
        BY DEF Evicted, Stale
      <4>3. Cardinality(Evicted) <= Cardinality(Filtered) + Cardinality(Failed)
        BY <4>1, <4>2, Together
      <4>4. Credit = credit + 2 * Cardinality(Filtered) + Cardinality(Failed)
        BY DEF Credit
      <4>5. Cardinality(Live) + credit >= conf.trainBatch
        BY <1>f, <2>s DEF Sampling
      <4>6. Cardinality(Live') + credit' >= conf.trainBatch
        BY <1>c, <1>n, <3>1, <3>3, <3>5, <4>1, <4>3, <4>4, <4>5
      <4>7. QED
        BY <2>s, <3>1, <3>5, <4>6 DEF FillInv, Sampling
    <3>6. CASE ~Enough /\ draining = TRUE
        BY <1>f, <2>s, <3>6
    <3>7. QED
        BY <2>1, <3>4, <3>5, <3>6
  <2>2. ASSUME NEW S \in SUBSET Prompts, Selected(S, Seen(Ended) \ S), SeenInFlight = {}
        PROVE  FillInv'
    <3>1. Seen(Ended) \ S \in SUBSET Prompts
        BY SeenParts
    <3>2. Live' = Live \ (S \cup (Seen(Ended) \ S))
        BY <2>2, <3>1, CountSelected
    <3>3. Live \subseteq Seen(Ended)
      <4>1. Live = Seen(Statuses \ {"none"})
        BY <2>s, SnapshotFacts
      <4>2. QED
        BY <2>2, <4>1 DEF Seen, SeenInFlight, Statuses, Ended
    <3>4. Live' = {} /\ pc' \in {"train", "failed"}
        BY <2>2, <3>2, <3>3 DEF Selected, Select
    <3>5. QED
        BY <3>4 DEF FillInv, Sampling
  <2>3. QED
    BY <1>9, <2>1, <2>2, DapoSteps
<1>10. CASE RaiseMissingMetric
    BY <1>10 DEF RaiseMissingMetric, FillInv, Sampling
<1>11. QED
    BY <1>1, <1>2, <1>3, <1>4, <1>5, <1>6, <1>7, <1>8, <1>9, <1>10
    DEF Next, Trainer, Stopped, SampleAsync

-----------------------------------------------------------------------------
(* Staleness.                                                               *)

LEMMA Spans ==
    ASSUME TypeInv, NEW u \in Prompts
    PROVE  /\ globalSteps \in Int /\ step[u] \in Int /\ Threshold \in Nat \ {0}
           /\ Span(u) \in Int
BY ConfigAssumption DEF TypeInv, TypeOK, Steps, Span

LEMMA SpanInit == Init => SpanInv
<1> SUFFICES ASSUME Init PROVE SpanInv
    OBVIOUS
<1>1. batch = {} /\ InFlight = {}
    BY DEF Init, InFlight, With
<1>2. QED
    BY <1>1 DEF SpanInv

(* Prompts that are submitted span one version.                             *)
LEMMA ExchangeSpans ==
    ASSUME TypeInv, GroupInv, SpanInv, pc \in {"add", "poll", "act"}, pc' \in {"add", "poll"},
           conf.async,
           NEW out \in SUBSET Prompts, NEW in \in SUBSET Prompts, Exchange(out, in),
           in \subseteq Unused \cup out, \A u \in out : status[u] \in Ended,
           UNCHANGED <<conf, batch, globalSteps>>
    PROVE  SpanInv'
<1>1. ASSUME NEW u \in batch PROVE Span(u)' = Span(u) /\ u \in Prompts
  <2>1. u \in Prompts /\ status[u] = "none"
    BY DEF TypeInv, TypeOK, GroupInv, GroupOK
  <2>2. u \notin out
    BY <2>1 DEF Ended
  <2>3. u \notin in
    BY <2>2, FreshFacts
  <2>4. step'[u] = step[u]
    BY <2>1, <2>2, <2>3 DEF Exchange
  <2>5. QED
    BY <2>1, <2>4 DEF Span
<1>2. ASSUME NEW u \in InFlight', ~conf.drop PROVE Span(u)' <= Threshold
  <2>1. u \in Prompts /\ Threshold \in Nat \ {0} /\ globalSteps \in Int
    BY Spans DEF InFlight, With
  <2>2. CASE u \in in
    <3>1. step'[u] = globalSteps
        BY <2>1, <2>2 DEF Exchange
    <3>2. QED
        BY <2>1, <3>1 DEF Span
  <2>3. CASE u \notin in
    <3>1. u \notin out /\ u \in InFlight /\ step'[u] = step[u]
        BY <2>1, <2>3 DEF Exchange, InFlight, With
    <3>2. Span(u) + 0 <= Threshold
        BY <1>2, <3>1 DEF SpanInv
    <3>3. QED
        BY <2>1, <3>1, <3>2, Spans DEF Span
  <2>4. QED
    BY <2>2, <2>3
<1>3. conf.drop => \A u \in batch' : Span(u)' <= Threshold
    BY <1>1 DEF SpanInv
<1>4. \A u \in InFlight' : Span(u)' \in Int
  <2>1. SUFFICES ASSUME NEW u \in InFlight' PROVE Span(u)' \in Int
    OBVIOUS
  <2>2. u \in Prompts /\ step' \in [Prompts -> Steps] /\ globalSteps \in Int
    BY QueueTypes, Spans DEF InFlight, With
  <2>3. QED
    BY <2>2, ConfigAssumption DEF Span, Steps
<1>5. QED
    BY <1>2, <1>3, <1>4 DEF SpanInv

LEMMA SpanStep ==
    ASSUME TypeInv, GroupInv, SpanInv, [Next]_vars
    PROVE  SpanInv'
<1> SUFFICES ASSUME conf.async PROVE SpanInv'
    <2>1. conf' = conf
        BY DEF Next, Trainer, Stopped, Worker, Start, EndSession, Settle, AddBatch, Poll,
            NextTrigger, Save, EndStep, Resume, SampleAsync, SampleSync, SampleSyncDapo,
            RaiseMissingMetric, Refill, WaitForNextPoll, Select, SelectDrained, vars
    <2>2. QED
        BY <2>1 DEF SpanInv
<1>t. TypeOK /\ Bounds /\ Locals /\ conf \in Configs
    BY DEF TypeInv, TypeOK
<1>1. CASE UNCHANGED vars
  <2>1. UNCHANGED <<conf, status, step, globalSteps, pc, batch>>
    BY <1>1 DEF vars, queueVars, trainerVars
  <2>2. InFlight' = InFlight /\ \A u : Span(u)' = Span(u)
    BY <2>1 DEF InFlight, With, Span
  <2>3. QED
    BY <2>1, <2>2 DEF SpanInv
<1>2. ASSUME NEW w \in Prompts, Worker(w) PROVE SpanInv'
  <2>1. UNCHANGED <<conf, step, globalSteps, pc, batch>>
    BY <1>2 DEF Worker, Start, EndSession, Settle, trainerVars
  <2>2. InFlight' \subseteq InFlight
    BY <1>t, <1>2 DEF Worker, Start, EndSession, Settle, InFlight, With, TypeOK
  <2>3. \A u : Span(u)' = Span(u)
    BY <2>1 DEF Span
  <2>4. QED
    BY <2>1, <2>2, <2>3 DEF SpanInv
<1>3. CASE AddBatch
  <2>1. PICK in \in SUBSET Prompts : in \subseteq Unused /\ Exchange({}, in)
    BY <1>3, AddSteps
  <2>2. UNCHANGED <<conf, batch, globalSteps>> /\ pc = "add" /\ pc' \in {"add", "poll"}
    BY <1>3 DEF AddBatch
  <2>3. QED
    BY <2>1, <2>2, ExchangeSpans
<1>4. CASE Poll
  <2>1. UNCHANGED <<conf, status, step, globalSteps, batch>> /\ pc = "poll" /\ pc' = "act"
    BY <1>4 DEF Poll, queueVars, trainerVars
  <2>2. InFlight' = InFlight /\ \A u : Span(u)' = Span(u)
    BY <2>1 DEF InFlight, With, Span
  <2>3. QED
    BY <2>1, <2>2 DEF SpanInv
<1>5. CASE NextTrigger
  <2>1. UNCHANGED <<conf, status, step, globalSteps, batch>> /\ pc = "train" /\ pc' = "poll"
    BY <1>5 DEF NextTrigger, queueVars
  <2>2. InFlight' = InFlight /\ \A u : Span(u)' = Span(u)
    BY <2>1 DEF InFlight, With, Span
  <2>3. ASSUME ~conf.drop, NEW u \in InFlight PROVE Span(u) + 0 <= Threshold
    <3>1. Span(u) + 1 <= Threshold
        BY <2>1, <2>3 DEF SpanInv
    <3>2. u \in Prompts
        BY DEF InFlight, With
    <3>3. QED
        BY <3>1, <3>2, Spans
  <2>4. QED
    BY <2>1, <2>2, <2>3 DEF SpanInv
<1>6. CASE Save
  <2>1. UNCHANGED <<conf, status, step, globalSteps, batch>> /\ pc = "train" /\ pc' = "saved"
    BY <1>6 DEF Save, queueVars, trainerVars
  <2>2. InFlight' = InFlight /\ \A u : Span(u)' = Span(u)
    BY <2>1 DEF InFlight, With, Span
  <2>3. QED
    BY <2>1, <2>2 DEF SpanInv
<1>7. CASE EndStep
  <2>1. /\ UNCHANGED <<conf, status>> /\ batch' = {} /\ globalSteps' = globalSteps + 1
        /\ pc \in {"train", "saved"} /\ pc' \in {"done", "add"}
        /\ step' = [u \in Prompts |-> IF u \in batch THEN 0 ELSE step[u]]
    BY <1>7 DEF EndStep
  <2>2. InFlight' = InFlight
    BY <2>1 DEF InFlight, With
  <2>3. ASSUME ~conf.drop, NEW u \in InFlight PROVE Span(u)' + 0 <= Threshold
    <3>1. u \in Prompts /\ status[u] # "none"
        BY DEF InFlight, With
    <3>2. u \notin batch
        BY <3>1 DEF GroupInv, GroupOK
    <3>3. Span(u) + 1 <= Threshold
        BY <2>1, <2>3 DEF SpanInv
    <3>4. step'[u] = step[u]
        BY <2>1, <3>1, <3>2
    <3>5. QED
        BY <2>1, <3>1, <3>3, <3>4, Spans DEF Span
  <2>4. QED
    BY <2>1, <2>2, <2>3 DEF SpanInv
<1>8. CASE Resume
  <2>1. /\ UNCHANGED conf /\ batch' = {} /\ globalSteps' = disk.globalSteps + 1
        /\ pc' \in {"done", "add"} /\ disk.globalSteps \in Nat
        /\ \A u \in Prompts :
              /\ status'[u] = IF disk.status[u] \in {"pending", "running"}
                              THEN "pending" ELSE disk.status[u]
              /\ step'[u] = IF disk.status[u] \in {"pending", "running"}
                            THEN disk.globalSteps + 1 ELSE disk.step[u]
    BY <1>t, <1>8, ConfigAssumption DEF Resume, TypeOK, Steps
  <2>2. ASSUME NEW u \in InFlight' PROVE Span(u)' + 0 <= Threshold
    <3>1. u \in Prompts /\ step'[u] = globalSteps'
        BY <2>1 DEF InFlight, With
    <3>2. QED
        BY <2>1, <3>1, ConfigAssumption DEF Span
  <2>3. QED
    BY <2>1, <2>2 DEF SpanInv
<1>9. CASE SampleAsync
  <2>1. ASSUME NEW out \in SUBSET Prompts, NEW in \in SUBSET Prompts, Exchanged(out, in)
        PROVE  SpanInv'
    <3>1. /\ UNCHANGED <<conf, batch, globalSteps>> /\ pc = "act" /\ pc' = "poll"
          /\ out \subseteq Seen(Ended) /\ in \subseteq Unused \cup out /\ Exchange(out, in)
        BY <2>1 DEF Exchanged, trainerVars
    <3>2. \A u \in out : status[u] \in Ended
        BY <3>1, SnapshotFacts
    <3>3. QED
        BY <3>1, <3>2, ExchangeSpans
  <2>2. ASSUME NEW S \in SUBSET Prompts, Selected(S, {}), Evicted = {}, ~HeldBack
        PROVE  SpanInv'
    <3>1. /\ UNCHANGED <<conf, globalSteps>> /\ pc = "act" /\ S \subseteq Sampleable
          /\ pc' \in {"train", "failed"} /\ batch' = batch \cup S
          /\ status' = [u \in Prompts |-> IF u \in S THEN "none" ELSE status[u]]
          /\ step' = [u \in Prompts |-> step[u]]
        BY <2>2 DEF Selected, Select
    <3>2. \A u \in Prompts : Span(u)' = Span(u)
        BY <3>1 DEF Span
    <3>3. ASSUME conf.drop, NEW u \in batch \cup S PROVE Span(u)' <= Threshold
      <4>1. CASE u \in batch
        BY <1>t, <3>2, <3>3, <4>1 DEF SpanInv, TypeOK
      <4>2. CASE u \in S
        <5>1. u \in Prompts /\ u \in Seen({"finished"})
            BY <2>2, <3>1, <4>2, SeenParts DEF Seen, Ended
        <5>2. ~(Span(u) > Threshold)
            BY <2>2, <3>3, <5>1 DEF Evicted, Stale
        <5>3. QED
            BY <3>2, <5>1, <5>2, Spans
      <4>3. QED
        BY <3>3, <4>1, <4>2
    <3>4. ASSUME ~conf.drop, NEW u \in InFlight' PROVE Span(u)' + 1 <= Threshold
      <4>1. u \in Prompts /\ u \in InFlight
        BY <3>1, <3>4 DEF InFlight, With
      <4>2. u \in SeenInFlight
        BY <3>1, <4>1, SnapshotFacts
      <4>3. ~(Span(u) >= Threshold)
        BY <2>2, <3>4, <4>2 DEF HeldBack
      <4>4. QED
        BY <3>2, <4>1, <4>3, Spans
    <3>5. \A u \in InFlight' : u \in Prompts
        BY DEF InFlight, With
    <3>6. \A u \in InFlight' : ~conf.drop => Span(u)' + 0 <= Threshold
        BY <3>2, <3>4, <3>5, Spans
    <3>7. QED
        BY <3>1, <3>3, <3>4, <3>6 DEF SpanInv
  <2>3. QED
    BY <1>9, <2>1, <2>2, AsyncSteps
<1>10. CASE RaiseMissingMetric
  <2>1. UNCHANGED <<conf, status, step, globalSteps, batch>> /\ pc = "act" /\ pc' = "failed"
    BY <1>10 DEF RaiseMissingMetric, queueVars, trainerVars
  <2>2. InFlight' = InFlight /\ \A u : Span(u)' = Span(u)
    BY <2>1 DEF InFlight, With, Span
  <2>3. QED
    BY <2>1, <2>2 DEF SpanInv
<1>11. QED
    BY <1>1, <1>2, <1>3, <1>4, <1>5, <1>6, <1>7, <1>8, <1>9, <1>10
    DEF Next, Trainer, Stopped, SampleSync, SampleSyncDapo

-----------------------------------------------------------------------------
(* Leaked trajectories.                                                     *)

LEMMA LeakInit == Init => LeakInv
<1> SUFFICES ASSUME Init PROVE LeakInv
    OBVIOUS
<1>1. conf \in Configs /\ pc \in {"done", "add"} /\ resumes = 0
    BY DEF Init
<1>2. Leaked = {} /\ DiskLeaked = {}
    BY DEF Init, Leaked, DiskLeaked, Bare
<1>3. conf.trainBatch \in Nat
    BY <1>1, ConfFacts
<1>4. resumes * conf.trainBatch = 0 /\ (resumes + 1) * conf.trainBatch >= 0
    BY <1>1, <1>3, Products
<1>5. QED
    BY <1>1, <1>2, <1>4, NoneCount DEF LeakInv, Sampling

(* Only a resume adds to what has leaked.                                   *)
LEMMA LeakedShrinks ==
    ASSUME TypeInv, GroupInv, [Next]_vars, ~Resume
    PROVE  Leaked' \subseteq Leaked
<1>t. /\ status \in [Prompts -> Statuses] /\ traj \in [Prompts -> 0 .. Sessions]
      /\ left \in [Prompts -> 0 .. Sessions]
    BY DEF TypeInv, TypeOK
<1>1. CASE UNCHANGED vars
    BY <1>1 DEF vars, queueVars, trainerVars, Leaked, Live, With
<1>2. ASSUME NEW w \in Prompts, Worker(w) PROVE Leaked' \subseteq Leaked
  <2>1. batch' = batch
    BY <1>2 DEF Worker, Start, EndSession, Settle, trainerVars
  <2>2. status'[w] # "none"
    <3>1. left[w] > 0 => status[w] # "none"
        BY <1>t DEF GroupInv, GroupOK
    <3>2. QED
        BY <1>t, <1>2, <3>1 DEF Worker, Start, EndSession, Settle
  <2>3. \A u \in Prompts : u # w => status'[u] = status[u] /\ traj'[u] = traj[u]
    BY <1>t, <1>2 DEF Worker, Start, EndSession, Settle
  <2>4. status'[w] \in Statuses
    BY <1>t, <1>2 DEF Worker, Start, EndSession, Settle, Statuses
  <2>5. QED
    BY <2>1, <2>2, <2>3, <2>4 DEF Leaked, Live, With, Statuses
<1>3. ASSUME NEW out \in SUBSET Prompts, NEW in \in SUBSET Prompts, Exchange(out, in),
             batch' = batch
      PROVE  Leaked' \subseteq Leaked
    BY <1>t, <1>3 DEF Exchange, Leaked, Live, With, Statuses
<1>4. CASE AddBatch
  <2>1. {} \in SUBSET Prompts /\ batch' = batch
    BY <1>4 DEF AddBatch
  <2>2. QED
    BY <1>3, <1>4, <2>1, AddSteps
<1>5. CASE Poll \/ NextTrigger \/ Save
    BY <1>5 DEF Poll, NextTrigger, Save, queueVars, trainerVars, Leaked, Live, With
<1>6. CASE EndStep
    BY <1>6 DEF EndStep, Leaked, Live, With
<1>7. ASSUME NEW out \in SUBSET Prompts, NEW in \in SUBSET Prompts, Exchanged(out, in)
      PROVE  Leaked' \subseteq Leaked
    BY <1>3, <1>7 DEF Exchanged, trainerVars
<1>8. ASSUME NEW S \in SUBSET Prompts, NEW out \in SUBSET Prompts, Selected(S, out)
      PROVE  Leaked' \subseteq Leaked
    BY <1>t, <1>8 DEF Selected, Select, Leaked, Live, With, Statuses
<1>9. CASE RaiseMissingMetric
    BY <1>9 DEF RaiseMissingMetric, queueVars, trainerVars, Leaked, Live, With
<1>10. QED
    BY <1>1, <1>2, <1>4, <1>5, <1>6, <1>7, <1>8, <1>9, StepCases

LEMMA LeakStep ==
    ASSUME TypeInv, GroupInv, LeakInv, [Next]_vars
    PROVE  LeakInv'
<1>t. TypeOK /\ Bounds /\ Locals /\ conf \in Configs
    BY DEF TypeInv, TypeOK
<1>n. /\ conf.trainBatch \in Nat /\ BatchSize \in Nat /\ conf.syncStep \in Nat
      /\ conf.syncStep * BatchSize = conf.trainBatch
      /\ conf.tqSaves => conf.async
      /\ trigger \in Int /\ resumes \in Nat
    BY <1>t, ConfFacts DEF TypeOK
<1>m. conf.trainBatch \in Nat /\ BatchSize \in Nat
    BY <1>n
<1>p. /\ Taken \in Int /\ resumes * conf.trainBatch \in Int
      /\ (resumes + 1) * conf.trainBatch = resumes * conf.trainBatch + conf.trainBatch
      /\ ((resumes + 1) + 1) * conf.trainBatch = (resumes + 1) * conf.trainBatch + conf.trainBatch
      /\ (resumes + 1) * conf.trainBatch \in Int
  <2>1. Taken \in Int
    BY <1>n, Products DEF Taken
  <2>2. resumes \in Int /\ resumes + 1 \in Int /\ conf.trainBatch \in Int
    BY <1>n
  <2>3. QED
    BY <2>1, <2>2, Products
<1>c. /\ Cardinality(batch) \in Nat /\ Cardinality(Leaked) \in Nat
      /\ Cardinality(DiskLeaked) \in Nat /\ batch \in SUBSET Prompts
    BY <1>t, QueueSets, Finite DEF TypeOK
<1>l. /\ conf.async /\ Sampling => Cardinality(batch) <= Taken
      /\ conf.async /\ pc = "train" => Cardinality(batch) <= Taken + BatchSize
      /\ ~conf.tqSaves => Leaked = {}
      /\ conf.tqSaves => /\ Cardinality(Leaked) <= resumes * conf.trainBatch
                         /\ Cardinality(DiskLeaked) <= (resumes + 1) * conf.trainBatch
    BY DEF LeakInv
<1>b. UNCHANGED conf => BatchSize' = BatchSize
    BY DEF BatchSize
<1>s. ~Resume => /\ Cardinality(Leaked') <= Cardinality(Leaked)
                 /\ Leaked = {} => Leaked' = {}
                 /\ Cardinality(Leaked') \in Nat
  <2>1. ~Resume => Leaked' \subseteq Leaked
    BY LeakedShrinks
  <2>2. Leaked' \in SUBSET Prompts
    BY DEF Leaked
  <2>3. QED
    BY <2>1, <2>2, QueueSets, Smaller, Finite
<1>k. ASSUME UNCHANGED <<conf, disk, resumes>>, ~Resume
      PROVE  /\ ~conf'.tqSaves => Leaked' = {}
             /\ conf'.tqSaves => /\ Cardinality(Leaked') <= resumes' * conf'.trainBatch
                                 /\ Cardinality(DiskLeaked') <= (resumes' + 1) * conf'.trainBatch
  <2>1. DiskLeaked' = DiskLeaked
    BY <1>k DEF DiskLeaked
  <2>2. conf.tqSaves => Cardinality(Leaked') <= resumes * conf.trainBatch
    BY <1>k, <1>s, <1>l, <1>c, <1>p
  <2>3. QED
    BY <1>k, <1>s, <1>l, <2>1, <2>2
<1>1. CASE UNCHANGED vars /\ ~Resume
  <2>1. UNCHANGED <<conf, disk, resumes, pc, trigger, batch>>
    BY <1>1 DEF vars, trainerVars, crashVars
  <2>2. Taken' = Taken /\ BatchSize' = BatchSize
    BY <2>1 DEF Taken, BatchSize
  <2>3. QED
    BY <1>1, <1>k, <1>l, <2>1, <2>2 DEF LeakInv, Sampling
<1>2. ASSUME NEW w \in Prompts, Worker(w), ~Resume PROVE LeakInv'
  <2>1. UNCHANGED <<conf, disk, resumes, pc, trigger, batch>>
    BY <1>2 DEF Worker, Start, EndSession, Settle, trainerVars, crashVars
  <2>2. Taken' = Taken /\ BatchSize' = BatchSize
    BY <2>1 DEF Taken, BatchSize
  <2>3. QED
    BY <1>2, <1>k, <1>l, <2>1, <2>2 DEF LeakInv, Sampling
<1>3. CASE AddBatch /\ ~Resume
  <2>1. UNCHANGED <<conf, disk, resumes, trigger, batch>> /\ pc = "add" /\ pc' \in {"add", "poll"}
    BY <1>3 DEF AddBatch, crashVars
  <2>2. batch = {} /\ trigger = 0
    BY <1>t, <2>1 DEF Locals, Bounds
  <2>3. Cardinality(batch') <= Taken'
    <3>1. 0 * BatchSize = 0
        BY <1>m, Products
    <3>2. QED
        BY <1>b, <2>1, <2>2, <3>1, NoneCount DEF Taken
  <2>4. QED
    BY <1>3, <1>k, <2>1, <2>3 DEF LeakInv, Sampling
<1>4. CASE Poll /\ ~Resume
  <2>1. UNCHANGED <<conf, disk, resumes, trigger, batch>> /\ pc = "poll" /\ pc' = "act"
    BY <1>4 DEF Poll, trainerVars, crashVars
  <2>2. Taken' = Taken
    BY <2>1 DEF Taken, BatchSize
  <2>3. QED
    BY <1>4, <1>k, <1>l, <2>1, <2>2 DEF LeakInv, Sampling
<1>5. CASE NextTrigger /\ ~Resume
  <2>1. /\ UNCHANGED <<conf, disk, resumes, batch>> /\ pc = "train" /\ pc' = "poll"
        /\ trigger' = trigger + 1
    BY <1>5 DEF NextTrigger, crashVars
  <2>2. Taken' = Taken + BatchSize
    BY <1>n, <1>b, <2>1, Products DEF Taken
  <2>3. QED
    BY <1>5, <1>k, <1>l, <2>1, <2>2 DEF LeakInv, Sampling
<1>6. CASE Save /\ ~Resume
  <2>1. /\ UNCHANGED <<conf, resumes, status, traj, batch>> /\ pc = "train" /\ pc' = "saved"
        /\ trigger = conf.syncStep - 1
    BY <1>6 DEF Save, queueVars, trainerVars
  <2>2. Taken + BatchSize = conf.trainBatch
    BY <1>n, <2>1, Products DEF Taken
  <2>3. ASSUME conf.tqSaves
        PROVE  Cardinality(DiskLeaked') <= (resumes + 1) * conf.trainBatch
    <3>1. disk'.traj = traj /\ disk'.status = status
        BY <1>6, <2>3 DEF Save
    <3>2. DiskLeaked' \subseteq Leaked \cup batch
        BY <3>1 DEF DiskLeaked, Leaked, Live, With
    <3>3. DiskLeaked' \in SUBSET Prompts /\ Leaked \cup batch \in SUBSET Prompts
        BY <1>c, QueueSets DEF DiskLeaked
    <3>4. Cardinality(DiskLeaked') <= Cardinality(Leaked \cup batch)
          /\ Cardinality(DiskLeaked') \in Nat /\ Cardinality(Leaked \cup batch) \in Nat
        BY <3>2, <3>3, Smaller, Finite
    <3>5. Cardinality(Leaked \cup batch) <= Cardinality(Leaked) + Cardinality(batch)
        BY <1>c, QueueSets, Together
    <3>6. Cardinality(batch) <= conf.trainBatch
        BY <1>n, <1>l, <2>1, <2>2, <2>3
    <3>7. QED
        BY <1>m, <1>c, <1>l, <1>p, <2>3, <3>4, <3>5, <3>6
  <2>4. conf.tqSaves => Cardinality(Leaked') <= resumes * conf.trainBatch
    BY <1>6, <1>s, <1>l, <1>c, <1>p
  <2>5. QED
    BY <1>6, <1>s, <1>l, <2>1, <2>3, <2>4 DEF LeakInv, Sampling
<1>7. CASE EndStep /\ ~Resume
  <2>1. UNCHANGED <<conf, disk, resumes>> /\ pc' \in {"done", "add"}
    BY <1>7 DEF EndStep, crashVars
  <2>2. QED
    BY <1>7, <1>k, <2>1 DEF LeakInv, Sampling
<1>8. CASE Resume
  <2>1. /\ UNCHANGED <<conf, disk>> /\ pc' \in {"done", "add"} /\ resumes' = resumes + 1
        /\ \A u \in Prompts :
              LET again == disk.status[u] \in {"pending", "running"}
              IN  /\ status'[u] = IF again THEN "pending" ELSE disk.status[u]
                  /\ traj'[u] = IF again THEN 0 ELSE disk.traj[u]
    BY <1>8 DEF Resume, Restored
  <2>2. Leaked' \subseteq DiskLeaked /\ DiskLeaked' = DiskLeaked
    <3>1. disk.status \in [Prompts -> Statuses] /\ disk.traj \in [Prompts -> 0 .. Sessions]
        BY <1>t DEF TypeOK
    <3>2. QED
        BY <2>1, <3>1 DEF Leaked, DiskLeaked, Live, With, Statuses
  <2>3. ~conf.tqSaves => DiskLeaked = {}
    BY DEF GroupInv, SavedOK, DiskLeaked
  <2>4. Cardinality(Leaked') <= Cardinality(DiskLeaked) /\ Cardinality(Leaked') \in Nat
    <3>1. Leaked' \in SUBSET Prompts
        BY DEF Leaked
    <3>2. QED
        BY <2>2, <3>1, QueueSets, Smaller, Finite
  <2>5. conf.tqSaves => Cardinality(Leaked') <= (resumes + 1) * conf.trainBatch
    BY <1>c, <1>l, <1>p, <2>4
  <2>6. conf.tqSaves => Cardinality(DiskLeaked') <= ((resumes + 1) + 1) * conf.trainBatch
    BY <1>m, <1>c, <1>l, <1>p, <2>2
  <2>7. QED
    BY <2>1, <2>2, <2>3, <2>5, <2>6 DEF LeakInv, Sampling
<1>9. ASSUME NEW out \in SUBSET Prompts, NEW in \in SUBSET Prompts, Exchanged(out, in), ~Resume
      PROVE  LeakInv'
  <2>1. UNCHANGED <<conf, disk, resumes, trigger, batch>> /\ pc = "act" /\ pc' = "poll"
    BY <1>9 DEF Exchanged, trainerVars, crashVars
  <2>2. Taken' = Taken
    BY <2>1 DEF Taken, BatchSize
  <2>3. QED
    BY <1>9, <1>k, <1>l, <2>1, <2>2 DEF LeakInv, Sampling
<1>10. ASSUME NEW S \in SUBSET Prompts, NEW out \in SUBSET Prompts, Selected(S, out), ~Resume
       PROVE  LeakInv'
  <2>1. /\ UNCHANGED <<conf, disk, resumes, trigger>> /\ pc = "act"
        /\ pc' \in {"train", "failed"} /\ batch' = batch \cup S /\ Cardinality(S) = BatchSize
    BY <1>10 DEF Selected, Select, crashVars
  <2>2. Taken' = Taken /\ BatchSize' = BatchSize
    BY <2>1 DEF Taken, BatchSize
  <2>3. conf.async => Cardinality(batch') <= Taken + BatchSize
    <3>1. Cardinality(batch \cup S) <= Cardinality(batch) + Cardinality(S)
          /\ Cardinality(batch \cup S) \in Nat
        BY <1>c, Together, Finite
    <3>2. conf.async => Cardinality(batch) <= Taken
        BY <1>l, <2>1 DEF Sampling
    <3>3. QED
        BY <1>m, <1>c, <1>p, <2>1, <3>1, <3>2
  <2>4. QED
    BY <1>10, <1>k, <2>1, <2>2, <2>3 DEF LeakInv, Sampling
<1>11. CASE RaiseMissingMetric /\ ~Resume
  <2>1. UNCHANGED <<conf, disk, resumes, batch>> /\ pc' = "failed"
    BY <1>11 DEF RaiseMissingMetric, trainerVars, crashVars
  <2>2. QED
    BY <1>11, <1>k, <1>l, <2>1 DEF LeakInv, Sampling
<1>12. QED
    BY <1>1, <1>2, <1>3, <1>4, <1>5, <1>6, <1>7, <1>8, <1>9, <1>10, <1>11, StepCases

-----------------------------------------------------------------------------
(* The theorems.                                                            *)

LEMMA InvHolds == Spec => []Inv
<1>1. Init => Inv
    BY TypeInit, GroupInit, StockInit, FillInit, SpanInit, LeakInit DEF Inv
<1>2. Inv /\ [Next]_vars => Inv'
  <2> SUFFICES ASSUME Inv, [Next]_vars PROVE Inv'
    OBVIOUS
  <2>1. TypeInv /\ GroupInv /\ StockInv /\ FillInv /\ SpanInv /\ LeakInv
    BY DEF Inv
  <2>2. TypeInv'
    BY <2>1, TypeStep
  <2>3. GroupInv'
    BY <2>1, GroupStep
  <2>4. StockInv'
    BY <2>1, <2>2, StockStep
  <2>5. FillInv'
    BY <2>1, FillStep
  <2>6. SpanInv'
    BY <2>1, SpanStep
  <2>7. LeakInv'
    BY <2>1, LeakStep
  <2>8. QED
    BY <2>2, <2>3, <2>4, <2>5, <2>6, <2>7 DEF Inv
<1>3. QED
    BY <1>1, <1>2, PTL DEF Spec

(* Type correctness of the trainer, the queue and the saved queue: no       *)
(* session is counted twice, and global_steps, toAdd and the triggers stay  *)
(* in range, also after a start from a checkpoint.                          *)
THEOREM BufferTypes == Spec => []TypeOK
<1>1. Inv => TypeOK
    BY DEF Inv, TypeInv
<1>2. QED
    BY <1>1, InvHolds, PTL

(* ReplayBufferAsync.sample neither loses nor piles up prompts: what it     *)
(* evicts it replaces one for one, whatever overlaps among the stale, the   *)
(* filtered and the failed, over every step, mini-batch and start from a    *)
(* checkpoint.                                                              *)
THEOREM StockStaysConstant == Spec => []StockIsConstant
<1>1. Inv => StockIsConstant
  <2> SUFFICES ASSUME Inv, conf.async, Sampling
               PROVE  Cardinality(Live) = (conf.warmup * warmups + 1) * conf.trainBatch
                                            - trigger * BatchSize
    BY DEF StockIsConstant
  <2>1. conf \in Configs /\ trigger \in Int /\ warmups \in Nat
    BY ConfFacts DEF Inv, TypeInv, TypeOK
  <2>2. conf.warmup * warmups \in Int /\ conf.trainBatch \in Int /\ Taken \in Int
        /\ Stock(warmups) \in Int
    BY <2>1, ConfFacts, Products, Stocks DEF Taken, Stock
  <2>3. (conf.warmup * warmups + 1) * conf.trainBatch = Stock(warmups) + conf.trainBatch
    BY <2>2, Products DEF Stock
  <2>4. Cardinality(Live) + Taken = Stock(warmups) + conf.trainBatch
    BY DEF Inv, StockInv
  <2>5. Cardinality(Live) \in Nat
    BY QueueSets, Finite
  <2>6. Cardinality(Live) = (conf.warmup * warmups + 1) * conf.trainBatch - Taken
    BY <2>2, <2>3, <2>4, <2>5
  <2>7. QED
    BY <2>6 DEF Taken
<1>2. QED
    BY <1>1, InvHolds, PTL

(* A synchronous sample never runs dry: ReplayBuffer.sample has the groups  *)
(* for a batch in the queue or the credit to submit them, and once it       *)
(* drains it has them.                                                      *)
THEOREM BatchesCanFill == Spec => []BatchCanFill
<1>1. Inv => BatchCanFill
  <2> SUFFICES ASSUME Inv, ~conf.async, Sampling
               PROVE  /\ Cardinality(Live) + credit >= conf.trainBatch
                      /\ draining => Cardinality(With({"finished", "failure"}) \ uniform)
                                        >= conf.trainBatch
    BY DEF BatchCanFill
  <2>1. /\ Cardinality(Live) + credit >= conf.trainBatch
        /\ draining => Cardinality(Usable) >= conf.trainBatch
    BY DEF Inv, FillInv
  <2>2. Usable \subseteq With({"finished", "failure"}) \ uniform
    BY DEF Usable, Ended
  <2>3. With({"finished", "failure"}) \ uniform \in SUBSET Prompts
    BY DEF With
  <2>4. /\ Cardinality(Usable) <= Cardinality(With({"finished", "failure"}) \ uniform)
        /\ Cardinality(Usable) \in Nat
        /\ Cardinality(With({"finished", "failure"}) \ uniform) \in Nat
    BY <2>2, <2>3, QueueSets, Smaller, Finite
  <2>5. conf.trainBatch \in Nat
    BY ConfFacts DEF Inv, TypeInv, TypeOK
  <2>6. QED
    BY <2>1, <2>4, <2>5
<1>2. QED
    BY <1>1, InvHolds, PTL

(* "Sync remains bufferless": no group outlives the synchronous step it was *)
(* submitted in, so none is trained on with weights it was not sampled by.  *)
THEOREM SyncStaysBufferless == Spec => []SyncIsBufferless
<1>1. Inv => SyncIsBufferless
    BY DEF Inv, FillInv, SyncIsBufferless, Sampling
<1>2. QED
    BY <1>1, InvHolds, PTL

(* The staleness bound of ReplayBufferAsync: under "drop" nothing that      *)
(* spans more than the threshold is trained on, under "wait" nothing in     *)
(* flight ever spans more.                                                  *)
THEOREM SpansStayWithinThreshold == Spec => []SpansWithinThreshold
<1>1. Inv => SpansWithinThreshold
  <2> SUFFICES ASSUME Inv, conf.async, pc # "done",
                      NEW u \in IF conf.drop THEN batch ELSE InFlight
               PROVE  Span(u) <= Threshold
    BY DEF SpansWithinThreshold
  <2>1. CASE conf.drop
    BY <2>1 DEF Inv, SpanInv
  <2>2. CASE ~conf.drop
    <3>1. u \in InFlight /\ u \in Prompts
        BY <2>2 DEF InFlight, With
    <3>2. Span(u) + (IF pc \in {"train", "saved"} THEN 1 ELSE 0) <= Threshold
        BY <2>2, <3>1 DEF Inv, SpanInv
    <3>3. QED
        BY <3>1, <3>2, Spans DEF Inv
  <2>3. QED
    BY <2>1, <2>2
<1>2. QED
    BY <1>1, InvHolds, PTL

(* An asynchronous step trains on no broken group: every session has its    *)
(* trajectory or had no output, none has raised or still runs, though the   *)
(* workers go on writing after the poll that picked the group; with group   *)
(* filtering there is a trajectory.                                         *)
THEOREM TrainedGroupsAreSettled == Spec => []TrainedGroupsSettled
<1>1. Inv => TrainedGroupsSettled
  <2>1. Inv => batch \subseteq Prompts
    BY DEF Inv, TypeInv, TypeOK
  <2>2. QED
    BY <2>1 DEF Inv, GroupInv, GroupOK, NoError, TrainedGroupsSettled
<1>2. QED
    BY <1>1, InvHolds, PTL

(* No trajectory is written into a group that was evicted; what is left in  *)
(* the queue is at most the batch each checkpoint was taken with.           *)
THEOREM TrajectoriesDoNotLeak == Spec => []NoLeakedTrajectories
<1>1. Inv => NoLeakedTrajectories
    BY NoneCount DEF Inv, LeakInv, NoLeakedTrajectories
<1>2. QED
    BY <1>1, InvHolds, PTL

=============================================================================
