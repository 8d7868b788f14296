---------------------- MODULE InferenceSchedulerProofs ----------------------
(* Proofs about the scheduler for any set of tasks and any queues.           *)
EXTENDS InferenceScheduler, TLAPS

(* The inductive invariant: the four invariants together.  Each needs the    *)
(* others: a waiter may start only while _active is clear (ModelExclusive),  *)
(* has an entry because it waits (EntriesMatchWaiters), and entries compare  *)
(* strictly because arrival numbers differ (ArrivalsDistinct).               *)
SchedInv ==
    /\ SchedTypeOK
    /\ ModelExclusive
    /\ EntriesMatchWaiters
    /\ ArrivalsDistinct
    /\ IdleSleeperHasRival

LEMMA SchedInitInv == SchedInit => SchedInv
<1> SUFFICES ASSUME SchedInit PROVE SchedInv
  OBVIOUS
<1> USE DEF SchedInit, NoBatch, Phases
<1>1. SchedTypeOK
  BY DEF SchedTypeOK
<1>2. ModelExclusive
  BY DEF ModelExclusive
<1>3. EntriesMatchWaiters
  BY DEF EntriesMatchWaiters
<1>4. ArrivalsDistinct
  BY DEF ArrivalsDistinct
<1>5. IdleSleeperHasRival
  BY DEF IdleSleeperHasRival
<1> QED BY <1>1, <1>2, <1>3, <1>4, <1>5 DEF SchedInv

(* The totals play no part in safety: whatever they are, they decide who     *)
(* starts, never whether the invariants survive.  A thread that stays asleep *)
(* on an idle model has a rival precisely because some other entry exists.   *)
LEMMA EvaluateInv ==
    ASSUME SchedTypeOK, ModelExclusive,
           NEW t \in Tasks, NEW w \in [Tasks -> Nat], NEW n \in Nat,
           arrivalSequence' = n,
           w[t] # NoBatch,
           \A u \in Tasks \ {t} : w[u] # NoBatch <=> phase[u] \in {"asleep", "notified"},
           phase[t] # "running",
           \A u \in Tasks : w[u] <= n,
           \A u, v \in Tasks : w[u] # NoBatch /\ w[u] = w[v] => u = v,
           \A u \in Tasks \ {t} : phase[u] = "asleep" /\ ~active
                => \E v \in Tasks \ {u} : w[v] # NoBatch,
           Evaluate(t, w)
    PROVE  SchedInv'
<1> USE DEF SchedTypeOK, Phases, NoBatch
<1>1. CASE MayStart(t, w)
  <2>1. /\ active' = TRUE
        /\ waiting' = [w EXCEPT ![t] = NoBatch]
        /\ phase' = [phase EXCEPT ![t] = "running"]
    BY <1>1 DEF Evaluate
  <2>2. ~active
    BY <1>1 DEF MayStart
  <2>3. SchedTypeOK'
    BY <2>1
  <2>4. ModelExclusive'
    BY <2>1, <2>2 DEF ModelExclusive
  <2>5. EntriesMatchWaiters'
    BY <2>1 DEF EntriesMatchWaiters
  <2>6. ArrivalsDistinct'
    BY <2>1 DEF ArrivalsDistinct
  <2>7. IdleSleeperHasRival'
    BY <2>1 DEF IdleSleeperHasRival
  <2> QED BY <2>3, <2>4, <2>5, <2>6, <2>7 DEF SchedInv
<1>2. CASE ~MayStart(t, w)
  <2>1. /\ UNCHANGED active
        /\ waiting' = w
        /\ phase' = [phase EXCEPT ![t] = "asleep"]
    BY <1>2 DEF Evaluate
  <2>3. SchedTypeOK'
    BY <2>1
  <2>4. ModelExclusive'
    BY <2>1 DEF ModelExclusive
  <2>5. EntriesMatchWaiters'
    BY <2>1 DEF EntriesMatchWaiters
  <2>6. ArrivalsDistinct'
    BY <2>1 DEF ArrivalsDistinct
  <2>7. IdleSleeperHasRival'
    <3> SUFFICES ASSUME NEW u \in Tasks, phase'[u] = "asleep", ~active'
                 PROVE  \E v \in Tasks \ {u} : waiting'[v] # NoBatch
      BY DEF IdleSleeperHasRival
    <3>1. CASE u = t
      BY <1>2, <2>1, <3>1 DEF MayStart
    <3>2. CASE u # t
      BY <2>1, <3>2
    <3> QED BY <3>1, <3>2
  <2> QED BY <2>3, <2>4, <2>5, <2>6, <2>7 DEF SchedInv
<1> QED BY <1>1, <1>2

LEMMA EnterInv == ASSUME SchedInv, NEW t \in Tasks, Enter(t) PROVE SchedInv'
<1> DEFINE n == arrivalSequence + 1
           w == [waiting EXCEPT ![t] = n]
<1>1. n \in Nat /\ w \in [Tasks -> Nat] /\ w[t] = n /\ n # NoBatch
  BY DEF SchedInv, SchedTypeOK, NoBatch
<1>2. \A u \in Tasks \ {t} : w[u] = waiting[u] /\ w[u] < n
  BY DEF SchedInv, SchedTypeOK, ArrivalsDistinct
<1>3. \A u \in Tasks \ {t} : w[u] # NoBatch <=> phase[u] \in {"asleep", "notified"}
  BY <1>2 DEF SchedInv, EntriesMatchWaiters
<1>4. \A u, v \in Tasks : w[u] # NoBatch /\ w[u] = w[v] => u = v
  BY <1>1, <1>2 DEF SchedInv, SchedTypeOK, ArrivalsDistinct
<1>5. \A u \in Tasks \ {t} : phase[u] = "asleep" /\ ~active
          => \E v \in Tasks \ {u} : w[v] # NoBatch
  BY <1>1
<1>6. \A u \in Tasks : w[u] <= n
  BY <1>1, <1>2
<1>7. arrivalSequence' = n /\ Evaluate(t, w) /\ phase[t] # "running"
  BY DEF Enter
<1> HIDE DEF n, w
<1> QED BY <1>1, <1>3, <1>4, <1>5, <1>6, <1>7, EvaluateInv DEF SchedInv

LEMMA WakeInv == ASSUME SchedInv, NEW t \in Tasks, Wake(t) PROVE SchedInv'
<1>1. /\ waiting \in [Tasks -> Nat] /\ arrivalSequence \in Nat
      /\ waiting[t] # NoBatch
      /\ phase[t] # "running"
      /\ arrivalSequence' = arrivalSequence
      /\ Evaluate(t, waiting)
  BY DEF SchedInv, SchedTypeOK, EntriesMatchWaiters, Wake
<1> QED
  BY <1>1, EvaluateInv
  DEF SchedInv, EntriesMatchWaiters, ArrivalsDistinct, IdleSleeperHasRival

LEMMA FinishInv == ASSUME SchedInv, NEW t \in Tasks, Finish(t) PROVE SchedInv'
<1> USE DEF SchedInv, SchedTypeOK, Phases, NoBatch, Finish
<1>1. SchedTypeOK'
  OBVIOUS
<1>2. \A u \in Tasks \ {t} : phase[u] # "running"
  BY DEF ModelExclusive
<1>3. ModelExclusive'
  BY <1>2 DEF ModelExclusive
<1>4. EntriesMatchWaiters'
  BY DEF EntriesMatchWaiters
<1>5. ArrivalsDistinct'
  BY DEF ArrivalsDistinct
<1>6. IdleSleeperHasRival'
  BY DEF IdleSleeperHasRival
<1> QED BY <1>1, <1>3, <1>4, <1>5, <1>6

LEMMA SchedStutterInv == ASSUME SchedInv, UNCHANGED schedVars PROVE SchedInv'
BY DEF schedVars, SchedInv, SchedTypeOK, ModelExclusive, EntriesMatchWaiters,
       ArrivalsDistinct, IdleSleeperHasRival

LEMMA NextInv == SchedInv /\ [Next]_<<schedVars, total>> => SchedInv'
<1> SUFFICES ASSUME SchedInv, [Next]_<<schedVars, total>> PROVE SchedInv'
  OBVIOUS
<1>1. ASSUME NEW t \in Tasks, Enter(t) PROVE SchedInv'
  BY <1>1, EnterInv
<1>2. ASSUME NEW t \in Tasks, Wake(t) PROVE SchedInv'
  BY <1>2, WakeInv
<1>3. ASSUME NEW t \in Tasks, Finish(t) PROVE SchedInv'
  BY <1>3, FinishInv
<1>4. CASE UNCHANGED schedVars
  BY <1>4, SchedStutterInv
<1> QED BY <1>1, <1>2, <1>3, <1>4 DEF Next

LEMMA SchedInvariance == Spec => []SchedInv
<1>1. Init => SchedInv
  BY SchedInitInv DEF Init
<1> QED BY <1>1, NextInv, PTL DEF Spec

(* The resident model never runs two batches at once, and _active is set     *)
(* exactly while a batch runs, for any number of tasks and any queues.       *)
THEOREM ModelExclusion == Spec => []ModelExclusive
<1>1. SchedInv => ModelExclusive
  BY DEF SchedInv
<1> QED BY <1>1, SchedInvariance, PTL

(* The entries of _waiting are exactly the threads in wait_for.              *)
THEOREM WaitersAreRegistered == Spec => []EntriesMatchWaiters
<1>1. SchedInv => EntriesMatchWaiters
  BY DEF SchedInv
<1> QED BY <1>1, SchedInvariance, PTL

(* A thread can stay asleep on an idle model only next to another waiting    *)
(* entry: with one task in use the scheduler never loses a wakeup.           *)
THEOREM SleeperHasRival == Spec => []IdleSleeperHasRival
<1>1. SchedInv => IdleSleeperHasRival
  BY DEF SchedInv
<1> QED BY <1>1, SchedInvariance, PTL

=============================================================================
