-------------------------- MODULE RewardServiceProofs --------------------------
(* Proofs about the reward service, and that it implements the contract of   *)
(* RewardContract, for any set of requests, any assignment of them to the    *)
(* tasks, any batch size and any faults.                                     *)
EXTENDS RewardRefinement, TLAPS, FiniteSetTheorems, SequenceTheorems

-----------------------------------------------------------------------------
(* How often a request occurs in a queue, as the queue is appended to and    *)
(* taken from.                                                               *)

Places(r, s) == {i \in 1 .. Len(s) : s[i] = r}

LEMMA PlacesFinite ==
    ASSUME NEW S, NEW s \in Seq(S), NEW r
    PROVE  /\ IsFiniteSet(Places(r, s))
           /\ Occurrences(r, s) = Cardinality(Places(r, s))
           /\ Occurrences(r, s) \in Nat
           /\ Occurrences(r, s) = 0 <=> \A i \in 1 .. Len(s) : s[i] # r
<1>1. IsFiniteSet(1 .. Len(s))
  <2>1. Len(s) \in Int /\ 1 \in Int
    OBVIOUS
  <2> QED BY <2>1, FS_Interval
<1>2. Places(r, s) \in SUBSET (1 .. Len(s))
  BY DEF Places
<1>3. IsFiniteSet(Places(r, s))
  BY <1>1, <1>2, FS_Subset
<1>4. Occurrences(r, s) = Cardinality(Places(r, s))
  BY DEF Occurrences, Places
<1>5. Cardinality(Places(r, s)) \in Nat
  BY <1>3, FS_CardinalityType
<1>6. Cardinality(Places(r, s)) = 0 <=> Places(r, s) = {}
  BY <1>3, FS_EmptySet
<1>7. Places(r, s) = {} <=> \A i \in 1 .. Len(s) : s[i] # r
  BY DEF Places
<1> QED BY <1>3, <1>4, <1>5, <1>6, <1>7

LEMMA OccurrencesOfEmpty == \A r : Occurrences(r, << >>) = 0
<1> SUFFICES ASSUME NEW r PROVE Occurrences(r, << >>) = 0
  OBVIOUS
<1>1. {i \in 1 .. Len(<< >>) : << >>[i] = r} = {}
  OBVIOUS
<1> QED BY <1>1, FS_EmptySet DEF Occurrences

LEMMA OccurrencesInAppend ==
    ASSUME NEW S, NEW s \in Seq(S), NEW e \in S, NEW r
    PROVE  Occurrences(r, Append(s, e)) = Occurrences(r, s) + IF e = r THEN 1 ELSE 0
<1> DEFINE n == Len(s) + 1
<1>1. /\ Append(s, e) \in Seq(S) /\ Len(Append(s, e)) = n
      /\ \A i \in 1 .. Len(s) : Append(s, e)[i] = s[i]
      /\ Append(s, e)[n] = e
      /\ Len(s) \in Nat
  OBVIOUS
<1>2. 1 .. n = (1 .. Len(s)) \cup {n} /\ n \notin 1 .. Len(s)
  BY <1>1
<1>3. n \notin Places(r, s)
  BY <1>2 DEF Places
<1>4. /\ IsFiniteSet(Places(r, s))
      /\ Occurrences(r, s) = Cardinality(Places(r, s))
      /\ Occurrences(r, Append(s, e)) = Cardinality(Places(r, Append(s, e)))
      /\ Occurrences(r, s) \in Nat
  BY <1>1, PlacesFinite
<1>5. CASE e = r
  <2>1. Places(r, Append(s, e)) = Places(r, s) \cup {n}
    BY <1>1, <1>2, <1>5 DEF Places
  <2>2. Cardinality(Places(r, s) \cup {n}) = Cardinality(Places(r, s)) + 1
    BY <1>3, <1>4, FS_AddElement
  <2> QED BY <2>1, <2>2, <1>4, <1>5
<1>6. CASE e # r
  <2>1. Places(r, Append(s, e)) = Places(r, s)
    BY <1>1, <1>2, <1>6 DEF Places
  <2> QED BY <2>1, <1>4, <1>6
<1> QED BY <1>5, <1>6

LEMMA OccurrencesInTail ==
    ASSUME NEW S, NEW s \in Seq(S), s # << >>, NEW r
    PROVE  /\ Head(s) \in S /\ Tail(s) \in Seq(S)
           /\ Occurrences(r, s) = Occurrences(r, Tail(s)) + IF Head(s) = r THEN 1 ELSE 0
<1> DEFINE T == Places(r, Tail(s))
           L == Places(r, s) \ {1}
           shift == [i \in T |-> i + 1]
<1>1. /\ Head(s) \in S /\ Head(s) = s[1]
      /\ Tail(s) \in Seq(S) /\ Len(Tail(s)) = Len(s) - 1
      /\ \A i \in 1 .. Len(s) - 1 : Tail(s)[i] = s[i + 1]
      /\ Len(s) \in Nat \ {0}
  OBVIOUS
<1>2. IsFiniteSet(Places(r, s)) /\ IsFiniteSet(T)
  BY <1>1, PlacesFinite
<1>3. IsFiniteSet(L) /\ Cardinality(L) = Cardinality(Places(r, s)) - IF Head(s) = r THEN 1 ELSE 0
  <2>1. 1 \in Places(r, s) <=> Head(s) = r
    BY <1>1 DEF Places
  <2>2. Cardinality(Places(r, s)) \in Nat
    BY <1>2, FS_CardinalityType
  <2> QED BY <1>2, <2>1, <2>2, FS_RemoveElement
<1>4. Cardinality(T) = Cardinality(L)
  <2>1. shift \in [T -> L]
    BY <1>1 DEF Places
  <2>2. \A a, b \in T : shift[a] = shift[b] => a = b
    BY <1>1 DEF Places
  <2>3. ASSUME NEW j \in L PROVE \E i \in T : shift[i] = j
    <3>1. j - 1 \in T /\ shift[j - 1] = j
      BY <1>1, <2>3 DEF Places
    <3> QED BY <3>1
  <2>4. shift \in Injection(T, L) /\ shift \in Surjection(T, L)
    BY <2>1, <2>2, <2>3 DEF Injection, Surjection, IsInjective
  <2> HIDE DEF shift, T, L
  <2> QED BY <2>4, <1>3, FS_Injection
<1>5. /\ Occurrences(r, s) = Cardinality(Places(r, s))
      /\ Occurrences(r, Tail(s)) = Cardinality(T)
      /\ Cardinality(T) \in Nat /\ Cardinality(Places(r, s)) \in Nat
  <2> HIDE DEF T
  <2>1. Tail(s) \in Seq(S)
    BY <1>1
  <2>2. Occurrences(r, Tail(s)) = Cardinality(T) /\ Occurrences(r, Tail(s)) \in Nat
    BY <2>1, PlacesFinite DEF T
  <2> QED BY <2>2, PlacesFinite
<1> HIDE DEF T, L
<1> QED BY <1>1, <1>3, <1>4, <1>5

-----------------------------------------------------------------------------
(* Type correctness.                                                         *)

LEMMA InitTypeOK == Init => TypeOK
<1> SUFFICES ASSUME Init PROVE TypeOK
  OBVIOUS
<1>1. << >> \in Seq(Requests)
  OBVIOUS
<1>2. queue \in [Tasks -> Seq(Requests)] /\ batch \in [Tasks -> Seq(Requests)]
  BY <1>1 DEF Init
<1>3. Sched!SchedTypeOK
  BY DEF Init, Sched!SchedInit, Sched!SchedTypeOK, Sched!Phases, Sched!NoBatch
<1> QED BY <1>2, <1>3 DEF Init, TypeOK, HandlerPcs, Replies, BatcherPcs, MainPcs

(* The scheduler's variables keep their types in its own steps.              *)
LEMMA SchedStepTypeOK ==
    ASSUME Sched!SchedTypeOK, NEW t \in Tasks,
           Sched!Enter(t) \/ Sched!Wake(t) \/ Sched!Finish(t)
    PROVE  Sched!SchedTypeOK'
<1> USE DEF Sched!SchedTypeOK, Sched!Phases, Sched!NoBatch
<1>1. ASSUME NEW w \in [Tasks -> Nat], Sched!Evaluate(t, w), arrivalSequence' \in Nat
      PROVE  Sched!SchedTypeOK'
  <2>1. active' \in BOOLEAN
    BY <1>1, Zenon DEF Sched!Evaluate
  <2>2. waiting' \in [Tasks -> Nat] /\ phase' \in [Tasks -> Sched!Phases]
    BY <1>1 DEF Sched!Evaluate
  <2> QED BY <1>1, <2>1, <2>2
<1>2. CASE Sched!Enter(t)
  <2>1. [waiting EXCEPT ![t] = arrivalSequence + 1] \in [Tasks -> Nat]
    OBVIOUS
  <2>2. arrivalSequence' \in Nat
    BY <1>2 DEF Sched!Enter
  <2> QED BY <1>1, <1>2, <2>1, <2>2 DEF Sched!Enter
<1>3. CASE Sched!Wake(t)
  BY <1>1, <1>3 DEF Sched!Wake
<1>4. CASE Sched!Finish(t)
  BY <1>4 DEF Sched!Finish
<1> QED BY <1>2, <1>3, <1>4

LEMMA HandlerTypeOK ==
    ASSUME TypeOK, NEW r \in Requests, Arrive(r) \/ Handler(r)
    PROVE  TypeOK'
<1> USE DEF TypeOK, Sched!SchedTypeOK, Sched!Phases, HandlerPcs, Replies, Answer,
            handlerVars, batcherVars, schedVars, serverVars
<1>1. CASE Arrive(r)
  BY <1>1 DEF Arrive
<1>2. CASE ReadState(r)
  BY <1>2 DEF ReadState
<1>3. CASE SubmitCheck(r)
  BY <1>3 DEF SubmitCheck
<1>4. CASE Put(r)
  <2>1. TaskOf[r] \in Tasks
    BY TaskOfAssumption
  <2>2. Append(queue[TaskOf[r]], r) \in Seq(Requests)
    BY <2>1
  <2>3. queue' \in [Tasks -> Seq(Requests)]
    BY <1>4, <2>2 DEF Put
  <2> QED BY <1>4, <2>3 DEF Put
<1>5. CASE Result(r)
  BY <1>5 DEF Result
<1> QED BY <1>1, <1>2, <1>3, <1>4, <1>5 DEF Handler

LEMMA BatcherTypeOK ==
    ASSUME TypeOK, NEW t \in Tasks, Batcher(t)
    PROVE  TypeOK'
<1> USE DEF TypeOK, Sched!SchedTypeOK, Sched!Phases, BatcherPcs, Goto,
            handlerVars, batcherVars, schedVars, serverVars
<1>1. CASE LoopTest(t) \/ GetEmpty(t)
  BY <1>1 DEF LoopTest, GetEmpty
<1>2. CASE TakeNext(t) /\ bpc' \in [Tasks -> BatcherPcs]
  <2>1. Head(queue[t]) \in Requests /\ Tail(queue[t]) \in Seq(Requests)
    BY <1>2 DEF TakeNext
  <2>2. queue' \in [Tasks -> Seq(Requests)] /\ batch' \in [Tasks -> Seq(Requests)]
    BY <1>2, <2>1 DEF TakeNext
  <2> QED BY <1>2, <2>2 DEF TakeNext
<1>3. CASE GetFirst(t) \/ CollectMore(t)
  BY <1>2, <1>3 DEF GetFirst, CollectMore
<1>4. CASE EnterRun(t) \/ WakeInRun(t) \/ InferOk(t) \/ InferFail(t)
  <2>1. Sched!SchedTypeOK'
    BY <1>4, SchedStepTypeOK DEF EnterRun, WakeInRun, InferOk, InferFail
  <2> HIDE DEF Sched!SchedTypeOK
  <2> QED BY <1>4, <2>1 DEF EnterRun, WakeInRun, InferOk, InferFail
<1>7. CASE Resolve(t) \/ FailBatch(t)
  <2>1. CASE batch[t] = << >>
    BY <1>7, <2>1 DEF Resolve, FailBatch, SettleFirst, EndOfBatch
  <2>2. CASE batch[t] # << >>
    <3>1. Head(batch[t]) \in Requests /\ Tail(batch[t]) \in Seq(Requests)
      BY <2>2
    <3> QED BY <1>7, <2>2, <3>1 DEF Resolve, FailBatch, SettleFirst, EndOfBatch
  <2> QED BY <2>1, <2>2
<1>8. CASE AbortMark(t)
  BY <1>8 DEF AbortMark, AbortTarget, DrainPc, Tasks
<1>9. CASE DrainOne(t)
  <2>1. AbortTarget(t) \in Tasks
    BY <1>9 DEF DrainOne, AbortTarget, Tasks
  <2>2. Head(queue[AbortTarget(t)]) \in Requests /\ Tail(queue[AbortTarget(t)]) \in Seq(Requests)
    BY <1>9, <2>1 DEF DrainOne
  <2> HIDE DEF AbortTarget
  <2> QED BY <1>9, <2>1, <2>2 DEF DrainOne
<1>10. CASE DrainEnd(t)
  BY <1>10 DEF DrainEnd, AfterDrain
<1>11. CASE PublishFatal(t)
  BY <1>11 DEF PublishFatal
<1> QED BY <1>1, <1>3, <1>4, <1>7, <1>8, <1>9, <1>10, <1>11 DEF Batcher

LEMMA ServerTypeOK ==
    ASSUME TypeOK, Main \/ Signal \/ Shutdown \/ Terminated
    PROVE  TypeOK'
<1> USE DEF TypeOK, Sched!SchedTypeOK, HandlerPcs, Replies, BatcherPcs, MainPcs,
            handlerVars, batcherVars, schedVars, serverVars
<1>1. CASE LoadOk \/ LoadFail \/ Publish \/ ServerThreadEnded
  BY <1>1 DEF LoadOk, LoadFail, Publish, ServerThreadEnded
<1>2. ASSUME NEW t \in Tasks, NEW pc, NEW next \in MainPcs,
             CloseSetStop(t, pc, next) \/ CloseJoin(t, pc, next)
      PROVE  TypeOK'
  <2>1. CASE CloseSetStop(t, pc, next)
    BY <1>2, <2>1 DEF CloseSetStop
  <2>2. CASE CloseJoin(t, pc, next)
    <3>1. timedOut' \in BOOLEAN
      BY <2>2 DEF CloseJoin
    <3> QED BY <1>2, <2>2, <3>1 DEF CloseJoin
  <2> QED BY <1>2, <2>1, <2>2
<1>3. CASE CloseModel \/ Exit
  <2>1. CASE CloseModel
    BY <2>1 DEF CloseModel
  <2>2. CASE Exit
    BY <2>2 DEF Exit
  <2> QED BY <1>3, <2>1, <2>2
<1>4. CASE Signal \/ Shutdown
  <2>1. CASE Signal
    BY <2>1 DEF Signal
  <2>2. CASE Shutdown
    BY <2>2 DEF Shutdown
  <2> QED BY <1>4, <2>1, <2>2
<1>5. CASE Terminated
  BY <1>5 DEF Terminated, vars
<1> QED BY <1>1, <1>2, <1>3, <1>4, <1>5 DEF Main, Tasks

LEMMA NextTypeOK == TypeOK /\ [Next]_vars => TypeOK'
<1>1. TypeOK /\ Next => TypeOK'
  BY HandlerTypeOK, BatcherTypeOK, ServerTypeOK DEF Next
<1>2. TypeOK /\ UNCHANGED vars => TypeOK'
  BY ServerTypeOK DEF vars, handlerVars, batcherVars, schedVars, serverVars,
                      TypeOK, Sched!SchedTypeOK
<1> QED BY <1>1, <1>2

(* Every variable of the service keeps its type.                             *)
THEOREM TypeCorrectness == Spec => []TypeOK
BY InitTypeOK, NextTypeOK, PTL DEF Spec

-----------------------------------------------------------------------------
(* The order of starting, failing and answering.                             *)

(* Until the service is published as ready nothing is submitted, so nothing  *)
(* can fail but the load.                                                    *)
BeforeReady ==
    mpc \in {"loading", "publish"} =>
        /\ ~ready /\ ~fatal
        /\ \A r \in Requests : hpc[r] \in {"idle", "read", "done"}
        /\ \A t \in Tasks : /\ bpc[t] \in {"off", "loop", "get", "ended"}
                            /\ queue[t] = << >>
                            /\ ~batcherFatal[t]

(* From then on it is ready or has failed, never both, and a batcher that    *)
(* has failed is told to stop.                                               *)
OnceReady ==
    /\ mpc \notin {"loading", "publish"} => ready \/ fatal
    /\ fatal => ~ready
    /\ \A t \in Tasks : batcherFatal[t] => stop[t]

OrderInv == TypeOK /\ BeforeReady /\ OnceReady

LEMMA InitOrderInv == Init => OrderInv
<1> SUFFICES ASSUME Init PROVE OrderInv
  OBVIOUS
<1>1. BeforeReady /\ OnceReady
  BY DEF Init, BeforeReady, OnceReady
<1> QED BY <1>1, InitTypeOK DEF OrderInv

(* What a step has to show that touches none of the flags.                   *)
QuietInHandlers == \A r \in Requests : hpc[r] \in {"idle", "read", "done"}
QuietInBatchers ==
    \A t \in Tasks : bpc[t] \in {"off", "loop", "get", "ended"} /\ queue[t] = << >>

LEMMA OrderFrame ==
    ASSUME OrderInv, UNCHANGED <<ready, fatal, mpc, stop, batcherFatal>>,
           mpc \in {"loading", "publish"} => QuietInHandlers' /\ QuietInBatchers'
    PROVE  BeforeReady' /\ OnceReady'
BY DEF OrderInv, BeforeReady, OnceReady, QuietInHandlers, QuietInBatchers

LEMMA HandlerOrderInv ==
    ASSUME OrderInv, NEW r \in Requests, Arrive(r) \/ Handler(r)
    PROVE  BeforeReady' /\ OnceReady'
<1> USE DEF Handler, Arrive, ReadState, SubmitCheck, Put, Result, Answer
<1>1. UNCHANGED <<ready, fatal, mpc, stop, batcherFatal, bpc>>
  BY Zenon DEF batcherVars, serverVars
<1>2. ASSUME mpc \in {"loading", "publish"} PROVE QuietInHandlers' /\ QuietInBatchers'
  <2>1. QuietInHandlers /\ QuietInBatchers /\ ~ready
    BY <1>2 DEF OrderInv, BeforeReady, QuietInHandlers, QuietInBatchers
  <2>2. hpc[r] \in {"idle", "read", "done"}
    BY <2>1 DEF QuietInHandlers
  <2>3. UNCHANGED queue
    BY <2>2 DEF batcherVars
  <2>4. \/ hpc' = [hpc EXCEPT ![r] = "read"]
        \/ hpc' = [hpc EXCEPT ![r] = "done"]
    BY <2>1, <2>2
  <2>5. hpc \in [Requests -> HandlerPcs]
    BY DEF OrderInv, TypeOK
  <2> QED BY <1>1, <2>1, <2>3, <2>4, <2>5 DEF QuietInHandlers, QuietInBatchers
<1> HIDE DEF Handler, Arrive
<1> QED BY <1>1, <1>2, OrderFrame

LEMMA BatcherOrderInv ==
    ASSUME OrderInv, NEW t \in Tasks, Batcher(t)
    PROVE  BeforeReady' /\ OnceReady'
<1> DEFINE Loops == LoopTest(t) \/ GetEmpty(t)
           Works == \/ GetFirst(t) \/ CollectMore(t)
                    \/ EnterRun(t) \/ WakeInRun(t) \/ InferOk(t) \/ InferFail(t)
                    \/ Resolve(t) \/ FailBatch(t) \/ DrainOne(t) \/ DrainEnd(t)
<1>1. TypeOK /\ BeforeReady /\ OnceReady
  BY DEF OrderInv
<1>2. ASSUME mpc \in {"loading", "publish"}
      PROVE  QuietInHandlers /\ QuietInBatchers
  BY <1>1, <1>2 DEF BeforeReady, QuietInHandlers, QuietInBatchers
<1>3. CASE Loops
  <2>1. UNCHANGED <<ready, fatal, mpc, stop, batcherFatal, hpc, queue>>
    BY <1>3, Zenon DEF LoopTest, GetEmpty, handlerVars, serverVars
  <2>2. \E pc \in {"loop", "get", "ended"} : bpc' = [bpc EXCEPT ![t] = pc]
    BY <1>3 DEF LoopTest, GetEmpty, Goto
  <2>3. ASSUME mpc \in {"loading", "publish"} PROVE QuietInHandlers' /\ QuietInBatchers'
    BY <1>1, <1>2, <2>1, <2>2, <2>3 DEF QuietInHandlers, QuietInBatchers, TypeOK
  <2> QED BY <2>1, <2>3, OrderFrame
<1>4. CASE Works
  <2>1. UNCHANGED <<ready, fatal, mpc, stop, batcherFatal>>
    BY <1>4, Zenon DEF GetFirst, CollectMore, TakeNext, EnterRun, WakeInRun, InferOk,
          InferFail, Resolve, FailBatch, SettleFirst, EndOfBatch, DrainOne, DrainEnd,
          batcherVars, serverVars
  <2>2. ~(bpc[t] \in {"off", "loop", "get", "ended"} /\ queue[t] = << >>)
    BY <1>4 DEF GetFirst, CollectMore, TakeNext, EnterRun, WakeInRun, InferOk,
          InferFail, Resolve, FailBatch, DrainOne, DrainEnd
  <2>3. mpc \notin {"loading", "publish"}
    BY <1>2, <2>2 DEF QuietInBatchers
  <2> QED BY <2>1, <2>3, OrderFrame
<1>5. CASE AbortMark(t) \/ PublishFatal(t)
  <2>1. mpc \notin {"loading", "publish"} /\ mpc' = mpc
    BY <1>2, <1>5, Zenon DEF QuietInBatchers, AbortMark, PublishFatal, serverVars
  <2>2. CASE AbortMark(t)
    <3>1. UNCHANGED <<ready, fatal>>
      BY <2>2, Zenon DEF AbortMark, serverVars
    <3>2. \A u \in Tasks : batcherFatal'[u] => stop'[u]
      BY <1>1, <2>2 DEF AbortMark, OnceReady, TypeOK
    <3> QED BY <1>1, <2>1, <3>1, <3>2 DEF BeforeReady, OnceReady
  <2>3. CASE PublishFatal(t)
    <3>1. fatal' = TRUE /\ ready' = FALSE /\ UNCHANGED <<stop, batcherFatal>>
      BY <2>3, Zenon DEF PublishFatal
    <3> QED BY <1>1, <2>1, <3>1 DEF BeforeReady, OnceReady
  <2> QED BY <1>5, <2>2, <2>3
<1> QED BY <1>3, <1>4, <1>5 DEF Batcher

LEMMA ServerOrderInv ==
    ASSUME OrderInv, Main \/ Signal \/ Shutdown \/ Terminated
    PROVE  BeforeReady' /\ OnceReady'
<1> USE DEF OrderInv, BeforeReady, OnceReady, TypeOK,
            handlerVars, batcherVars, schedVars, serverVars
<1>1. CASE LoadOk \/ LoadFail
  BY <1>1 DEF LoadOk, LoadFail
<1>2. CASE Publish \/ ServerThreadEnded
  BY <1>2 DEF Publish, ServerThreadEnded
<1>3. ASSUME NEW t \in Tasks,
             NEW pc \in {"closeR4", "joinR4", "closeGate", "joinGate"},
             NEW next \in {"joinR4", "closeGate", "joinGate", "closeModel"},
             CloseSetStop(t, pc, next) \/ CloseJoin(t, pc, next)
      PROVE  BeforeReady' /\ OnceReady'
  <2>1. CASE CloseSetStop(t, pc, next)
    BY <1>3, <2>1 DEF CloseSetStop
  <2>2. CASE CloseJoin(t, pc, next)
    <3>1. mpc = pc /\ mpc' = next /\ UNCHANGED <<ready, fatal, stop, batcherFatal>>
      BY <2>2, Zenon DEF CloseJoin
    <3> QED BY <1>3, <3>1
  <2> QED BY <1>3, <2>1, <2>2
<1>4. CASE CloseModel \/ Exit
  BY <1>4 DEF CloseModel, Exit
<1>5. CASE Signal \/ Shutdown \/ Terminated
  BY <1>5 DEF Signal, Shutdown, Terminated, vars
<1> QED BY <1>1, <1>2, <1>3, <1>4, <1>5 DEF Main, Tasks

LEMMA NextOrderInv == OrderInv /\ [Next]_vars => OrderInv'
<1> SUFFICES ASSUME OrderInv, [Next]_vars PROVE OrderInv'
  OBVIOUS
<1>1. TypeOK'
  BY NextTypeOK DEF OrderInv
<1>2. CASE UNCHANGED vars
  BY <1>1, <1>2 DEF vars, handlerVars, batcherVars, serverVars,
                    OrderInv, BeforeReady, OnceReady
<1> QED BY <1>1, <1>2, HandlerOrderInv, BatcherOrderInv, ServerOrderInv DEF Next, OrderInv

LEMMA OrderInvariance == Spec => []OrderInv
BY InitOrderInv, NextOrderInv, PTL DEF Spec

(* Between two critical sections of another thread a flag is only ever set:  *)
(* ready can be published after a failure by no schedule.                    *)
FlagsStay ==
    /\ fatal => fatal' /\ ~ready'
    /\ \A t \in Tasks : batcherFatal[t] => batcherFatal[t]' /\ stop[t]'

LEMMA FlagsStayStep == OrderInv /\ [Next]_vars => FlagsStay
<1> SUFFICES ASSUME OrderInv, [Next]_vars PROVE FlagsStay
  OBVIOUS
<1>1. TypeOK /\ BeforeReady /\ OnceReady /\ OnceReady'
  BY NextOrderInv DEF OrderInv
<1>2. SUFFICES /\ fatal => fatal'
               /\ \A t \in Tasks : batcherFatal[t] => batcherFatal[t]'
  BY <1>1 DEF FlagsStay, OnceReady
<1>3. CASE \/ UNCHANGED <<fatal, batcherFatal>>
           \/ fatal' = TRUE /\ UNCHANGED batcherFatal
  BY <1>3
<1>4. ASSUME NEW t \in Tasks, AbortMark(t)
      PROVE  UNCHANGED fatal /\ \A u \in Tasks : batcherFatal[u] => batcherFatal[u]'
  <2>1. UNCHANGED fatal
    BY <1>4, Zenon DEF AbortMark, serverVars
  <2>2. batcherFatal' = [batcherFatal EXCEPT ![AbortTarget(t)] = TRUE]
    BY <1>4 DEF AbortMark
  <2> QED BY <1>1, <2>1, <2>2 DEF TypeOK
<1>5. ASSUME NEW r \in Requests, Arrive(r) \/ Handler(r)
      PROVE  UNCHANGED <<fatal, batcherFatal>>
  BY <1>5, Zenon DEF Handler, Arrive, ReadState, SubmitCheck, Put, Result, Answer,
        batcherVars, serverVars
<1>6. ASSUME NEW t \in Tasks, Batcher(t), ~AbortMark(t)
      PROVE  \/ UNCHANGED <<fatal, batcherFatal>>
             \/ fatal' = TRUE /\ UNCHANGED batcherFatal
  BY <1>6, Zenon DEF Batcher, LoopTest, GetEmpty, GetFirst, CollectMore, TakeNext, EnterRun,
        WakeInRun, InferOk, InferFail, Resolve, FailBatch, SettleFirst, EndOfBatch,
        DrainOne, DrainEnd, PublishFatal, batcherVars, serverVars
<1>7. ASSUME Main \/ Signal \/ Shutdown \/ Terminated \/ UNCHANGED vars
      PROVE  \/ UNCHANGED <<fatal, batcherFatal>>
             \/ fatal' = TRUE /\ UNCHANGED batcherFatal
  BY <1>7, Zenon DEF Main, LoadOk, LoadFail, Publish, ServerThreadEnded, CloseSetStop,
        CloseJoin, CloseModel, Exit, Signal, Shutdown, Terminated, vars,
        batcherVars, serverVars
<1> QED BY <1>3, <1>4, <1>5, <1>6, <1>7 DEF Next

(* A failure is final: once the load or a batch has failed, neither the      *)
(* service nor a batcher is ever ready again, and the batcher is told to     *)
(* stop, for any interleaving of handlers, batchers, main thread and signals.*)
THEOREM FailureIsFinal == Spec => FatalIsPermanent
<1>1. OrderInv /\ [Next]_vars => [FlagsStay]_vars
  BY FlagsStayStep
<1>2. Spec => [][FlagsStay]_vars
  BY <1>1, OrderInvariance, PTL DEF Spec
<1> QED BY <1>2 DEF FatalIsPermanent, FlagsStay

LEMMA NotReadyStep ==
    ASSUME OrderInv, [Next]_vars, NEW r \in Requests, reply'[r] = "503", reply[r] # "503"
    PROVE  mpc \in {"loading", "publish"}
<1>1. TypeOK /\ BeforeReady /\ OnceReady
  BY DEF OrderInv
<1>2. ASSUME NEW q \in Requests, ReadState(q) PROVE mpc \in {"loading", "publish"}
  <2>1. q = r
    BY <1>1, <1>2 DEF ReadState, Answer, TypeOK
  <2>2. CASE ~fatal /\ ~ready
    BY <1>1, <2>2 DEF OnceReady
  <2>3. CASE fatal \/ ready
    <3>1. reply'[r] # "503"
      BY <1>1, <1>2, <2>1, <2>3 DEF ReadState, Answer, TypeOK
    <3> QED BY <3>1
  <2> QED BY <2>2, <2>3
<1>3. ASSUME NEW q \in Requests,
             Arrive(q) \/ SubmitCheck(q) \/ Put(q) \/ Result(q)
      PROVE  FALSE
  BY <1>1, <1>3 DEF Arrive, SubmitCheck, Put, Result, Answer, TypeOK
<1>4. ASSUME NEW t \in Tasks, Batcher(t) PROVE FALSE
  BY <1>4, Zenon DEF Batcher, LoopTest, GetEmpty, GetFirst, CollectMore, TakeNext, EnterRun,
        WakeInRun, InferOk, InferFail, Resolve, FailBatch, SettleFirst, EndOfBatch,
        AbortMark, DrainOne, DrainEnd, PublishFatal, handlerVars
<1>5. CASE Exit
  BY <1>1, <1>5 DEF Exit, TypeOK
<1>6. ASSUME Main \/ Signal \/ Shutdown \/ Terminated \/ UNCHANGED vars, ~Exit
      PROVE  FALSE
  BY <1>6, Zenon DEF Main, LoadOk, LoadFail, Publish, ServerThreadEnded, CloseSetStop,
        CloseJoin, CloseModel, Signal, Shutdown, Terminated, vars, handlerVars
<1> QED BY <1>2, <1>3, <1>4, <1>5, <1>6 DEF Next, Handler

(* 503 is only ever answered while the model is being loaded: a service that *)
(* was ready answers 500 after a failure, whatever a handler had read before.*)
THEOREM LoadingIsSaidOnlyWhileLoading == Spec => NotReadyOnlyWhileLoading
<1> DEFINE OnlyLoading == \A r \in Requests : reply'[r] = "503" /\ reply[r] # "503"
                              => mpc \in {"loading", "publish"}
<1>1. OrderInv /\ [Next]_vars => [OnlyLoading]_vars
  BY NotReadyStep
<1>2. Spec => [][OnlyLoading]_vars
  BY <1>1, OrderInvariance, PTL DEF Spec
<1> QED BY <1>2 DEF NotReadyOnlyWhileLoading

-----------------------------------------------------------------------------
(* The batchers and the scheduler.                                           *)

LEMMA SchedStepMatches ==
    ASSUME TypeOK, RunMatchesScheduler, NEW t \in Tasks,
           \/ Sched!Enter(t) /\ bpc' = [bpc EXCEPT ![t] = "run"]
           \/ Sched!Wake(t) /\ bpc[t] = "run" /\ UNCHANGED bpc
           \/ Sched!Finish(t) /\ bpc' \in {[bpc EXCEPT ![t] = pc] : pc \in BatcherPcs \ {"run"}}
    PROVE  RunMatchesScheduler'
<1> USE DEF TypeOK, Sched!SchedTypeOK, Sched!Phases, Sched!NoBatch,
            RunMatchesScheduler, Sched!EntriesMatchWaiters
<1>1. CASE Sched!Enter(t) /\ bpc' = [bpc EXCEPT ![t] = "run"]
  <2> DEFINE w == [waiting EXCEPT ![t] = arrivalSequence + 1]
  <2>1. w \in [Tasks -> Nat] /\ w[t] # 0 /\ \A u \in Tasks \ {t} : w[u] = waiting[u]
    OBVIOUS
  <2>2. phase[t] = "out" /\ Sched!Evaluate(t, w)
    BY <1>1 DEF Sched!Enter
  <2> HIDE DEF w
  <2>3. CASE Sched!MayStart(t, w)
    BY <1>1, <2>1, <2>2, <2>3 DEF Sched!Evaluate
  <2>4. CASE ~Sched!MayStart(t, w)
    <3>1. waiting' = w /\ phase' = [phase EXCEPT ![t] = "asleep"]
      BY <2>2, <2>4 DEF Sched!Evaluate
    <3> QED BY <1>1, <2>1, <2>2, <3>1
  <2> QED BY <2>3, <2>4
<1>2. CASE Sched!Wake(t) /\ bpc[t] = "run" /\ UNCHANGED bpc
  <2>1. CASE Sched!MayStart(t, waiting)
    BY <1>2, <2>1 DEF Sched!Wake, Sched!Evaluate
  <2>2. CASE ~Sched!MayStart(t, waiting)
    BY <1>2, <2>2 DEF Sched!Wake, Sched!Evaluate
  <2> QED BY <2>1, <2>2
<1>3. CASE Sched!Finish(t) /\ bpc' \in {[bpc EXCEPT ![t] = pc] : pc \in BatcherPcs \ {"run"}}
  BY <1>3 DEF Sched!Finish
<1> QED BY <1>1, <1>2, <1>3

(* A step outside of run() by a thread outside of run().                     *)
LEMMA OtherStepMatches ==
    ASSUME TypeOK, RunMatchesScheduler, UNCHANGED <<phase, waiting>>,
           \A t \in Tasks : bpc[t] = "run" <=> bpc'[t] = "run"
    PROVE  RunMatchesScheduler'
BY DEF RunMatchesScheduler, Sched!EntriesMatchWaiters, Sched!NoBatch

LEMMA NextMatches == OrderInv /\ RunMatchesScheduler /\ [Next]_vars => RunMatchesScheduler'
<1> SUFFICES ASSUME OrderInv, RunMatchesScheduler, [Next]_vars
             PROVE  RunMatchesScheduler'
  OBVIOUS
<1>1. TypeOK /\ BeforeReady
  BY DEF OrderInv
<1>2. ASSUME NEW t \in Tasks, EnterRun(t) \/ WakeInRun(t) \/ InferOk(t) \/ InferFail(t)
      PROVE  RunMatchesScheduler'
  <2>1. CASE EnterRun(t)
    BY <1>1, <2>1, SchedStepMatches DEF EnterRun, Goto
  <2>2. CASE WakeInRun(t)
    BY <1>1, <2>2, SchedStepMatches DEF WakeInRun, batcherVars
  <2>3. CASE InferOk(t) \/ InferFail(t)
    <3>1. bpc' \in {[bpc EXCEPT ![t] = pc] : pc \in BatcherPcs \ {"run"}}
      BY <2>3 DEF InferOk, InferFail, Goto, BatcherPcs
    <3> QED BY <1>1, <2>3, <3>1, SchedStepMatches DEF InferOk, InferFail
  <2> QED BY <1>2, <2>1, <2>2, <2>3
<1>3. ASSUME NEW t \in Tasks, Batcher(t),
             ~(EnterRun(t) \/ WakeInRun(t) \/ InferOk(t) \/ InferFail(t))
      PROVE  RunMatchesScheduler'
  <2>1. UNCHANGED <<phase, waiting>>
    BY <1>3, Zenon DEF Batcher, LoopTest, GetEmpty, GetFirst, CollectMore, TakeNext,
          Resolve, FailBatch, SettleFirst, EndOfBatch, AbortMark, DrainOne, DrainEnd,
          PublishFatal, schedVars
  <2>2. bpc[t] # "run"
    BY <1>3 DEF Batcher, LoopTest, GetEmpty, GetFirst, CollectMore, Resolve, FailBatch,
          AbortMark, DrainOne, DrainEnd, PublishFatal
  <2>3. \/ UNCHANGED bpc
        \/ \E pc \in BatcherPcs \ {"run"} : bpc' = [bpc EXCEPT ![t] = pc]
    BY <1>3 DEF Batcher, LoopTest, GetEmpty, GetFirst, CollectMore, TakeNext,
          Resolve, FailBatch, SettleFirst, EndOfBatch, AbortMark, DrainOne, DrainEnd,
          PublishFatal, Goto, DrainPc, AfterDrain, BatcherPcs
  <2> QED BY <1>1, <2>1, <2>2, <2>3, OtherStepMatches DEF TypeOK
<1>4. ASSUME NEW r \in Requests, Arrive(r) \/ Handler(r) PROVE RunMatchesScheduler'
  <2>1. UNCHANGED <<phase, waiting, bpc>>
    BY <1>4, Zenon DEF Handler, Arrive, ReadState, SubmitCheck, Put, Result, Answer,
          batcherVars, schedVars
  <2> QED BY <1>1, <2>1, OtherStepMatches
<1>5. ASSUME LoadOk PROVE RunMatchesScheduler'
  <2>1. UNCHANGED <<phase, waiting>> /\ bpc' = [t \in Tasks |-> "loop"]
    BY <1>5, Zenon DEF LoadOk, schedVars
  <2>2. \A t \in Tasks : bpc[t] # "run"
    BY <1>1, <1>5 DEF LoadOk, BeforeReady
  <2> QED BY <1>1, <2>1, <2>2, OtherStepMatches
<1>6. ASSUME Main \/ Signal \/ Shutdown \/ Terminated \/ UNCHANGED vars, ~LoadOk
      PROVE  RunMatchesScheduler'
  <2>1. UNCHANGED <<phase, waiting, bpc>>
    BY <1>6, Zenon DEF Main, LoadFail, Publish, ServerThreadEnded, CloseSetStop, CloseJoin,
          CloseModel, Exit, Signal, Shutdown, Terminated, vars, batcherVars, schedVars
  <2> QED BY <1>1, <2>1, OtherStepMatches
<1> QED BY <1>2, <1>3, <1>4, <1>5, <1>6 DEF Next

(* A batcher thread has an entry with the scheduler exactly while it waits   *)
(* in run(), whatever fails or is closed: no batch that ended in an error    *)
(* leaves an entry behind to win a later selection, and "already has a       *)
(* waiting batch" is never raised.                                           *)
THEOREM RunsAreScheduled == Spec => []RunMatchesScheduler
<1>1. Init => RunMatchesScheduler
  BY DEF Init, RunMatchesScheduler, Sched!EntriesMatchWaiters, Sched!SchedInit, Sched!NoBatch
<1> QED BY <1>1, NextMatches, OrderInvariance, PTL DEF Spec

(* What the scheduler guarantees among queues that do as they please, it     *)
(* guarantees among those of the batchers (InferenceSchedulerProofs).        *)
Alone == INSTANCE InferenceSchedulerProofs WITH total <- Total

LEMMA SchedInvariant == Spec => []Alone!SchedInv
<1>1. Init => Alone!SchedInv
  <2>1. Sched!SchedInit => Alone!SchedInit
    BY DEF Sched!SchedInit, Alone!SchedInit, Sched!NoBatch, Alone!NoBatch
  <2> QED BY <2>1, Alone!SchedInitInv DEF Init
<1>2. Alone!SchedInv /\ [Next]_vars => Alone!SchedInv'
  <2> SUFFICES ASSUME Alone!SchedInv, [Next]_vars PROVE Alone!SchedInv'
    OBVIOUS
  <2>1. ASSUME NEW t \in Tasks, Sched!Enter(t) PROVE Alone!SchedInv'
    BY <2>1, Alone!EnterInv
    DEF Sched!Enter, Alone!Enter, Sched!Evaluate, Alone!Evaluate, Sched!MayStart,
        Alone!MayStart, Sched!NoBatch, Alone!NoBatch
  <2>2. ASSUME NEW t \in Tasks, Sched!Wake(t) PROVE Alone!SchedInv'
    BY <2>2, Alone!WakeInv
    DEF Sched!Wake, Alone!Wake, Sched!Evaluate, Alone!Evaluate, Sched!MayStart,
        Alone!MayStart, Sched!NoBatch, Alone!NoBatch
  <2>3. ASSUME NEW t \in Tasks, Sched!Finish(t) PROVE Alone!SchedInv'
    BY <2>3, Alone!FinishInv DEF Sched!Finish, Alone!Finish
  <2>4. CASE UNCHANGED schedVars
    BY <2>4, Alone!SchedStutterInv DEF schedVars, Alone!schedVars
  <2>5. UNCHANGED schedVars \/ \E t \in Tasks : Sched!Enter(t) \/ Sched!Wake(t) \/ Sched!Finish(t)
    BY Zenon DEF Next, Handler, Arrive, ReadState, SubmitCheck, Put, Result, Answer, Batcher,
          LoopTest, GetEmpty, GetFirst, CollectMore, TakeNext, EnterRun, WakeInRun, InferOk,
          InferFail, Resolve, FailBatch, SettleFirst, EndOfBatch, AbortMark, DrainOne,
          DrainEnd, PublishFatal, Main, LoadOk, LoadFail, Publish, ServerThreadEnded,
          CloseSetStop, CloseJoin, CloseModel, Exit, Signal, Shutdown, Terminated, vars
  <2> QED BY <2>1, <2>2, <2>3, <2>4, <2>5
<1> QED BY <1>1, <1>2, PTL DEF Spec

(* The resident model never runs two batches at once, whatever the requests, *)
(* the batch size and the faults.                                            *)
THEOREM ModelRunsOneBatch == Spec => []ModelExclusive
<1>1. Alone!SchedInv => ModelExclusive
  BY DEF Alone!SchedInv, ModelExclusive, Alone!ModelExclusive, Sched!ModelExclusive
<1> QED BY <1>1, SchedInvariant, PTL

(* A batcher asleep on an idle model has a registered rival, so a service    *)
(* that is asked for one task only never loses a wakeup.                     *)
THEOREM SleeperHasRival == Spec => []IdleSleeperHasRival
<1>1. Alone!SchedInv => IdleSleeperHasRival
  BY DEF Alone!SchedInv, IdleSleeperHasRival, Alone!IdleSleeperHasRival,
         Sched!IdleSleeperHasRival, Alone!NoBatch, Sched!NoBatch
<1> QED BY <1>1, SchedInvariant, PTL

-----------------------------------------------------------------------------
(* Requests, their futures and the queues.                                   *)

(* The place of a request, in the queue or in the batch of a task, as they   *)
(* are now or after a step.                                                  *)
Held(r, q, b) == Occurrences(r, q) + Occurrences(r, b)

LEMMA HeldIsNatural ==
    ASSUME NEW q \in Seq(Requests), NEW b \in Seq(Requests), NEW r
    PROVE  /\ Held(r, q, b) \in Nat
           /\ b # << >> => Held(Head(b), q, b) > 0
           /\ q # << >> => Held(Head(q), q, b) > 0
<1>1. ASSUME NEW x PROVE Occurrences(x, q) \in Nat /\ Occurrences(x, b) \in Nat
  BY PlacesFinite
<1>2. ASSUME NEW s \in Seq(Requests), s # << >> PROVE Occurrences(Head(s), s) # 0
  <2>1. 1 \in 1 .. Len(s) /\ s[1] = Head(s)
    BY <1>2
  <2> QED BY <2>1, PlacesFinite
<1> QED BY <1>1, <1>2 DEF Held

LEMMA OnceIsHeld ==
    ASSUME PendingExactlyOnce, NEW r \in Requests, NEW t \in Tasks
    PROVE  Held(r, queue[t], batch[t]) = IF t = TaskOf[r] /\ future[r] = "pending" THEN 1 ELSE 0
BY DEF PendingExactlyOnce, Held

(* A request leaves its queue or batch in the step that settles its future.  *)
LEMMA SettlingKeepsOnce ==
    ASSUME TypeOK, PendingExactlyOnce, NEW t \in Tasks, NEW first \in Requests,
           NEW outcome, outcome # "pending",
           future' = [future EXCEPT ![first] = outcome],
           Held(first, queue[t], batch[t]) > 0,
           \A r \in Requests : Held(r, queue[t], batch[t]) =
                Held(r, queue'[t], batch'[t]) + IF r = first THEN 1 ELSE 0,
           \A r \in Requests, u \in Tasks \ {t} :
                Held(r, queue'[u], batch'[u]) = Held(r, queue[u], batch[u]),
           \A r \in Requests : Held(r, queue'[t], batch'[t]) \in Nat
    PROVE  PendingExactlyOnce' /\ future[first] = "pending" /\ TaskOf[first] = t
<1>1. future[first] = "pending" /\ TaskOf[first] = t
  BY OnceIsHeld
<1>2. ASSUME NEW r \in Requests, NEW u \in Tasks
      PROVE  Held(r, queue'[u], batch'[u]) =
                IF u = TaskOf[r] /\ future'[r] = "pending" THEN 1 ELSE 0
  <2>1. Held(r, queue[u], batch[u]) = IF u = TaskOf[r] /\ future[r] = "pending" THEN 1 ELSE 0
    BY OnceIsHeld
  <2>2. future'[r] = IF r = first THEN outcome ELSE future[r]
    BY DEF TypeOK
  <2>3. CASE u = t
    BY <1>1, <2>1, <2>2, <2>3
  <2>4. CASE u # t
    BY <1>1, <2>1, <2>2, <2>4
  <2> QED BY <2>3, <2>4
<1> QED BY <1>1, <1>2 DEF PendingExactlyOnce, Held

LEMMA SettleFirstKeepsOnce ==
    ASSUME TypeOK, PendingExactlyOnce, NEW t \in Tasks,
           NEW outcome \in {"ok", "failed"}, SettleFirst(t, outcome)
    PROVE  PendingExactlyOnce' /\ Head(batch[t]) \in Requests /\ future[Head(batch[t])] = "pending"
<1> DEFINE first == Head(batch[t])
<1>1. /\ batch[t] \in Seq(Requests) /\ batch[t] # << >> /\ queue' = queue
      /\ batch \in [Tasks -> Seq(Requests)] /\ batch' = [batch EXCEPT ![t] = Tail(batch[t])]
      /\ future' = [future EXCEPT ![first] = outcome]
      /\ queue \in [Tasks -> Seq(Requests)]
  BY DEF SettleFirst, TypeOK
<1>2. first \in Requests /\ Tail(batch[t]) \in Seq(Requests) /\ batch'[t] = Tail(batch[t])
  BY <1>1
<1>3. \A r \in Requests : Held(r, queue[t], batch[t]) =
         Held(r, queue'[t], batch'[t]) + IF r = first THEN 1 ELSE 0
  <2> TAKE r \in Requests
  <2>1. Occurrences(r, batch[t]) = Occurrences(r, batch'[t]) + IF first = r THEN 1 ELSE 0
    BY <1>1, <1>2, OccurrencesInTail
  <2>2. Occurrences(r, batch'[t]) \in Nat /\ Occurrences(r, queue[t]) \in Nat
    BY <1>1, <1>2, PlacesFinite
  <2> QED BY <1>1, <2>1, <2>2 DEF Held
<1>4. \A r \in Requests, u \in Tasks \ {t} :
          Held(r, queue'[u], batch'[u]) = Held(r, queue[u], batch[u])
  BY <1>1 DEF Held
<1>5. \A r \in Requests : Held(r, queue'[t], batch'[t]) \in Nat
  BY <1>1, <1>2, HeldIsNatural
<1>6. Held(first, queue[t], batch[t]) > 0
  BY <1>1, HeldIsNatural
<1> HIDE DEF first
<1>7. PendingExactlyOnce' /\ future[first] = "pending"
  BY <1>1, <1>2, <1>3, <1>4, <1>5, <1>6, SettlingKeepsOnce
<1> QED BY <1>2, <1>7 DEF first

LEMMA DrainOneKeepsOnce ==
    ASSUME TypeOK, PendingExactlyOnce, NEW t \in Tasks, DrainOne(t)
    PROVE  PendingExactlyOnce' /\ \E first \in Requests :
              future[first] = "pending" /\ future' = [future EXCEPT ![first] = "failed"]
<1> DEFINE u == AbortTarget(t)
           first == Head(queue[u])
<1>0. u \in Tasks
  BY DEF DrainOne, AbortTarget, Tasks
<1> HIDE DEF u
<1>1. /\ queue[u] \in Seq(Requests) /\ queue[u] # << >> /\ batch' = batch
      /\ queue \in [Tasks -> Seq(Requests)] /\ queue' = [queue EXCEPT ![u] = Tail(queue[u])]
      /\ future' = [future EXCEPT ![first] = "failed"]
      /\ batch \in [Tasks -> Seq(Requests)]
  BY <1>0 DEF DrainOne, TypeOK, u
<1>2. first \in Requests /\ Tail(queue[u]) \in Seq(Requests) /\ queue'[u] = Tail(queue[u])
  BY <1>0, <1>1
<1>3. \A r \in Requests : Held(r, queue[u], batch[u]) =
         Held(r, queue'[u], batch'[u]) + IF r = first THEN 1 ELSE 0
  <2> TAKE r \in Requests
  <2>1. Occurrences(r, queue[u]) = Occurrences(r, queue'[u]) + IF first = r THEN 1 ELSE 0
    BY <1>1, <1>2, OccurrencesInTail
  <2>2. Occurrences(r, queue'[u]) \in Nat /\ Occurrences(r, batch[u]) \in Nat
    BY <1>0, <1>1, <1>2, PlacesFinite
  <2> QED BY <1>1, <2>1, <2>2 DEF Held
<1>4. \A r \in Requests, v \in Tasks \ {u} :
          Held(r, queue'[v], batch'[v]) = Held(r, queue[v], batch[v])
  BY <1>1 DEF Held
<1>5. \A r \in Requests : Held(r, queue'[u], batch'[u]) \in Nat
  BY <1>0, <1>1, <1>2, HeldIsNatural
<1>6. Held(first, queue[u], batch[u]) > 0
  BY <1>0, <1>1, HeldIsNatural
<1> HIDE DEF first
<1>7. PendingExactlyOnce' /\ future[first] = "pending"
  BY <1>0, <1>1, <1>2, <1>3, <1>4, <1>5, <1>6, SettlingKeepsOnce
<1> QED BY <1>1, <1>2, <1>7

LEMMA TakeNextKeepsOnce ==
    ASSUME TypeOK, PendingExactlyOnce, NEW t \in Tasks, TakeNext(t)
    PROVE  PendingExactlyOnce'
<1> DEFINE first == Head(queue[t])
<1>1. /\ queue[t] \in Seq(Requests) /\ queue[t] # << >> /\ batch[t] \in Seq(Requests)
      /\ queue' = [queue EXCEPT ![t] = Tail(queue[t])] /\ queue \in [Tasks -> Seq(Requests)]
      /\ batch' = [batch EXCEPT ![t] = Append(batch[t], first)] /\ batch \in [Tasks -> Seq(Requests)]
      /\ future' = future
  BY DEF TakeNext, TypeOK, handlerVars
<1>2. /\ first \in Requests
      /\ queue'[t] = Tail(queue[t]) /\ queue'[t] \in Seq(Requests)
      /\ batch'[t] = Append(batch[t], first)
  BY <1>1
<1>3. ASSUME NEW r \in Requests
      PROVE  Held(r, queue'[t], batch'[t]) = Held(r, queue[t], batch[t])
  <2>1. Occurrences(r, queue[t]) = Occurrences(r, queue'[t]) + IF first = r THEN 1 ELSE 0
    BY <1>1, <1>2, OccurrencesInTail
  <2> HIDE DEF first
  <2>2. Occurrences(r, batch'[t]) = Occurrences(r, batch[t]) + IF first = r THEN 1 ELSE 0
    BY <1>1, <1>2, OccurrencesInAppend
  <2>3. Occurrences(r, queue'[t]) \in Nat /\ Occurrences(r, batch[t]) \in Nat
    BY <1>1, <1>2, PlacesFinite
  <2> QED BY <2>1, <2>2, <2>3 DEF Held
<1>4. ASSUME NEW r \in Requests, NEW u \in Tasks
      PROVE  Held(r, queue'[u], batch'[u]) = Held(r, queue[u], batch[u])
  <2>1. CASE u = t
    BY <1>3, <2>1
  <2>2. CASE u # t
    BY <1>1, <2>2 DEF Held
  <2> QED BY <2>1, <2>2
<1> QED BY <1>1, <1>4, OnceIsHeld DEF PendingExactlyOnce, Held

(* The request put is in neither queue nor batch: its future was not pending.*)
LEMMA PutKeepsOnce ==
    ASSUME TypeOK, PendingExactlyOnce, NEW r \in Requests, Put(r), future[r] # "pending"
    PROVE  PendingExactlyOnce'
<1> DEFINE t == TaskOf[r]
<1>1. /\ t \in Tasks
      /\ queue' = [queue EXCEPT ![t] = Append(queue[t], r)] /\ queue \in [Tasks -> Seq(Requests)]
      /\ batch' = batch /\ batch \in [Tasks -> Seq(Requests)]
      /\ future' = [future EXCEPT ![r] = "pending"]
      /\ future \in [Requests -> {"none", "pending", "ok", "failed"}]
  BY TaskOfAssumption DEF Put, TypeOK
<1> HIDE DEF t
<1>2. ASSUME NEW q \in Requests, NEW u \in Tasks
      PROVE  Held(q, queue'[u], batch'[u]) =
                Held(q, queue[u], batch[u]) + IF q = r /\ u = t THEN 1 ELSE 0
  <2>1. Held(q, queue[u], batch[u]) \in Nat /\ Occurrences(q, queue[u]) \in Nat
        /\ Occurrences(q, batch[u]) \in Nat
    BY <1>1, HeldIsNatural, PlacesFinite
  <2>2. CASE u = t
    <3>1. Occurrences(q, Append(queue[t], r)) = Occurrences(q, queue[t]) + IF r = q THEN 1 ELSE 0
      BY <1>1, OccurrencesInAppend
    <3> QED BY <1>1, <2>1, <2>2, <3>1 DEF Held
  <2>3. CASE u # t
    BY <1>1, <2>1, <2>3 DEF Held
  <2> QED BY <2>2, <2>3
<1>3. ASSUME NEW q \in Requests, NEW u \in Tasks
      PROVE  Held(q, queue'[u], batch'[u]) =
                IF u = TaskOf[q] /\ future'[q] = "pending" THEN 1 ELSE 0
  <2>1. Held(q, queue[u], batch[u]) = IF u = TaskOf[q] /\ future[q] = "pending" THEN 1 ELSE 0
    BY OnceIsHeld
  <2> QED BY <1>1, <1>2, <2>1 DEF t
<1> QED BY <1>3 DEF PendingExactlyOnce, Held

(* A future is created by the put, and a batcher that answers with a failure *)
(* has recorded it first.                                                    *)
FuturesAwaitPut ==
    \A r \in Requests : hpc[r] \in {"idle", "read", "submit", "put"} => future[r] = "none"

AbortsAreMarked ==
    \A t \in Tasks :
        bpc[t] \in {"drainOwn", "failBatch", "publishFatal",
                    "abortR4", "drainR4", "abortGate", "drainGate"} => batcherFatal[t]

FuturesInv ==
    /\ PendingExactlyOnce
    /\ FuturesAwaitPut
    /\ AbortsAreMarked
    /\ RepliesFollowFutures

(* One future of a batch or a queue settled by thread t.                     *)
LEMMA SettlingFollows ==
    ASSUME TypeOK, FuturesInv, NEW t \in Tasks, NEW first \in Requests,
           NEW outcome \in {"ok", "failed"},
           future[first] = "pending", future' = [future EXCEPT ![first] = outcome],
           outcome = "failed" => batcherFatal[t],
           UNCHANGED <<hpc, reply, bpc, batcherFatal, mpc>>
    PROVE  FuturesAwaitPut' /\ AbortsAreMarked' /\ RepliesFollowFutures'
<1>1. AbortsAreMarked'
  BY DEF FuturesInv, AbortsAreMarked
<1>2. hpc[first] = "wait" \/ ~Alive
  BY DEF FuturesInv, RepliesFollowFutures
<1>3. \A r \in Requests : future'[r] = IF r = first THEN outcome ELSE future[r]
  BY DEF TypeOK
<1>4. FuturesAwaitPut'
  BY <1>3 DEF FuturesInv, FuturesAwaitPut
<1>5. ASSUME NEW r \in Requests
      PROVE  /\ reply[r] = "200" => future'[r] = "ok"
             /\ future'[r] = "failed" => \E u \in Tasks : batcherFatal[u]
             /\ future'[r] = "pending" => hpc[r] = "wait" \/ ~Alive
  BY <1>3 DEF FuturesInv, RepliesFollowFutures
<1> QED BY <1>1, <1>4, <1>5 DEF RepliesFollowFutures, Alive

LEMMA HandlerFutures ==
    ASSUME OrderInv, FuturesInv, NEW r \in Requests, Arrive(r) \/ Handler(r)
    PROVE  FuturesInv'
<1>1. TypeOK /\ PendingExactlyOnce /\ FuturesAwaitPut /\ AbortsAreMarked /\ RepliesFollowFutures
  BY DEF OrderInv, FuturesInv
<1>2. UNCHANGED <<bpc, batcherFatal, mpc, batch>>
  BY Zenon DEF Arrive, Handler, ReadState, SubmitCheck, Put, Result, Answer, serverVars, batcherVars
<1>3. AbortsAreMarked'
  BY <1>1, <1>2 DEF AbortsAreMarked
<1>4. CASE Put(r)
  <2>1. /\ hpc[r] = "put" /\ hpc' = [hpc EXCEPT ![r] = "wait"]
        /\ future' = [future EXCEPT ![r] = "pending"] /\ reply' = reply
    BY <1>4 DEF Put
  <2>2. future[r] = "none"
    BY <1>1, <2>1 DEF FuturesAwaitPut
  <2>3. PendingExactlyOnce'
    BY <1>1, <1>4, <2>2, PutKeepsOnce
  <2>4. FuturesAwaitPut' /\ RepliesFollowFutures'
    BY <1>1, <1>2, <2>1, <2>2 DEF FuturesAwaitPut, RepliesFollowFutures, TypeOK, Alive
  <2> QED BY <1>3, <2>3, <2>4 DEF FuturesInv
<1>5. CASE ~Put(r)
  <2>1. UNCHANGED <<future, queue>>
    BY <1>5, Zenon DEF Arrive, Handler, ReadState, SubmitCheck, Result, Answer, batcherVars
  <2>2. PendingExactlyOnce'
    BY <1>1, <1>2, <2>1 DEF PendingExactlyOnce
  <2>3. CASE Result(r)
    <3>1. /\ hpc[r] = "wait" /\ hpc' = [hpc EXCEPT ![r] = "done"]
          /\ \/ future[r] = "ok" /\ reply' = [reply EXCEPT ![r] = "200"]
             \/ future[r] = "failed" /\ reply' = [reply EXCEPT ![r] = "500"]
      BY <2>3 DEF Result, Answer
    <3> QED BY <1>1, <1>2, <1>3, <2>1, <2>2, <3>1
            DEF FuturesInv, FuturesAwaitPut, RepliesFollowFutures, TypeOK, Alive
  <2>4. CASE ~Result(r)
    <3>1. /\ hpc[r] \in {"idle", "read", "submit"}
          /\ \E pc \in {"read", "submit", "put", "done"} : hpc' = [hpc EXCEPT ![r] = pc]
          /\ \/ reply' = reply
             \/ \E status \in {"400", "500", "503"} : reply' = [reply EXCEPT ![r] = status]
      BY <1>5, <2>4 DEF Arrive, Handler, ReadState, SubmitCheck, Answer
    <3>2. future[r] = "none"
      BY <1>1, <3>1 DEF FuturesAwaitPut
    <3>3. FuturesAwaitPut'
      BY <1>1, <2>1, <3>1, <3>2 DEF FuturesAwaitPut, TypeOK
    <3>4. RepliesFollowFutures'
      BY <1>1, <1>2, <2>1, <3>1, <3>2 DEF RepliesFollowFutures, TypeOK, Alive
    <3> QED BY <1>3, <2>2, <3>3, <3>4 DEF FuturesInv
  <2> QED BY <2>3, <2>4
<1> QED BY <1>4, <1>5

LEMMA BatcherFutures ==
    ASSUME OrderInv, FuturesInv, NEW t \in Tasks, Batcher(t)
    PROVE  FuturesInv'
<1>1. TypeOK /\ PendingExactlyOnce /\ FuturesAwaitPut /\ AbortsAreMarked /\ RepliesFollowFutures
  BY DEF OrderInv, FuturesInv
<1>2. CASE DrainOne(t)
  <2>1. UNCHANGED <<hpc, reply, bpc, batcherFatal, mpc>> /\ batcherFatal[t]
    BY <1>1, <1>2 DEF DrainOne, AbortsAreMarked, serverVars
  <2>2. PICK first \in Requests :
            future[first] = "pending" /\ future' = [future EXCEPT ![first] = "failed"]
    BY <1>1, <1>2, DrainOneKeepsOnce
  <2> QED BY <1>1, <1>2, <2>1, <2>2, DrainOneKeepsOnce, SettlingFollows DEF FuturesInv
<1>3. ASSUME NEW outcome \in {"ok", "failed"}, SettleFirst(t, outcome),
             outcome = "failed" => bpc[t] = "failBatch"
      PROVE  FuturesInv'
  <2>1. UNCHANGED <<hpc, reply, bpc, batcherFatal, mpc>>
        /\ future' = [future EXCEPT ![Head(batch[t])] = outcome]
    BY <1>3 DEF SettleFirst, serverVars
  <2>2. outcome = "failed" => batcherFatal[t]
    BY <1>1, <1>3 DEF AbortsAreMarked
  <2>3. PendingExactlyOnce' /\ Head(batch[t]) \in Requests /\ future[Head(batch[t])] = "pending"
    BY <1>1, <1>3, SettleFirstKeepsOnce
  <2> QED BY <1>1, <2>1, <2>2, <2>3, SettlingFollows DEF FuturesInv
<1>4. ASSUME UNCHANGED <<hpc, reply, future, mpc>>, PendingExactlyOnce', AbortsAreMarked',
             \A u \in Tasks : batcherFatal[u] => batcherFatal'[u]
      PROVE  FuturesInv'
  BY <1>1, <1>4 DEF FuturesInv, FuturesAwaitPut, RepliesFollowFutures, Alive
<1>5. CASE AbortMark(t)
  <2>1. UNCHANGED <<hpc, reply, future, mpc, queue, batch>>
    BY <1>5, Zenon DEF AbortMark, handlerVars, serverVars
  <2>2. /\ batcherFatal' = [batcherFatal EXCEPT ![AbortTarget(t)] = TRUE]
        /\ bpc' = [bpc EXCEPT ![t] = DrainPc(bpc[t])]
        /\ bpc[t] \in {"abortOwn", "abortR4", "abortGate"}
    BY <1>5 DEF AbortMark, Goto
  <2>3. batcherFatal'[t]
    BY <1>1, <2>2 DEF AbortsAreMarked, AbortTarget, TypeOK
  <2>4. \A u \in Tasks : batcherFatal[u] => batcherFatal'[u]
    BY <1>1, <2>2 DEF TypeOK
  <2>5. AbortsAreMarked'
    BY <1>1, <2>2, <2>3, <2>4 DEF AbortsAreMarked, TypeOK
  <2>6. PendingExactlyOnce'
    BY <1>1, <2>1 DEF PendingExactlyOnce
  <2> QED BY <1>4, <2>1, <2>4, <2>5, <2>6
<1>6. ASSUME ~DrainOne(t), ~AbortMark(t),
             ~(Resolve(t) /\ SettleFirst(t, "ok")), ~(FailBatch(t) /\ SettleFirst(t, "failed"))
      PROVE  FuturesInv'
  <2>1. UNCHANGED <<hpc, reply, future, mpc, batcherFatal>>
    BY <1>6, Zenon DEF Batcher, LoopTest, GetEmpty, GetFirst, CollectMore, TakeNext, EnterRun,
          WakeInRun, InferOk, InferFail, Resolve, FailBatch, EndOfBatch, DrainEnd,
          PublishFatal, handlerVars, batcherVars, serverVars
  <2>2. PendingExactlyOnce'
    <3>1. TakeNext(t) \/ UNCHANGED <<queue, batch>>
      BY <1>6, Zenon DEF Batcher, LoopTest, GetEmpty, GetFirst, CollectMore, EnterRun,
            WakeInRun, InferOk, InferFail, Resolve, FailBatch, EndOfBatch, DrainEnd,
            PublishFatal, batcherVars
    <3>2. CASE UNCHANGED <<queue, batch>>
      BY <1>1, <2>1, <3>2 DEF PendingExactlyOnce
    <3> QED BY <1>1, <3>1, <3>2, TakeNextKeepsOnce
  <2>3. \/ UNCHANGED bpc
        \/ \E pc \in {"loop", "get", "collect", "run", "resolve", "abortOwn", "ended"} :
               bpc' = [bpc EXCEPT ![t] = pc]
        \/ /\ bpc[t] \in {"drainOwn", "failBatch", "publishFatal", "drainR4", "drainGate"}
           /\ \E pc \in BatcherPcs : bpc' = [bpc EXCEPT ![t] = pc]
    BY <1>6 DEF Batcher, LoopTest, GetEmpty, GetFirst, CollectMore, TakeNext, EnterRun,
          WakeInRun, InferOk, InferFail, Resolve, FailBatch, EndOfBatch, DrainEnd,
          PublishFatal, AfterDrain, Goto, BatcherPcs, batcherVars
  <2>4. AbortsAreMarked'
    BY <1>1, <2>1, <2>3 DEF AbortsAreMarked, TypeOK
  <2> QED BY <1>4, <2>1, <2>2, <2>4
<1>7. CASE Resolve(t) /\ SettleFirst(t, "ok")
  BY <1>3, <1>7
<1>8. CASE FailBatch(t) /\ SettleFirst(t, "failed")
  BY <1>3, <1>8 DEF FailBatch
<1> QED BY <1>2, <1>5, <1>6, <1>7, <1>8

LEMMA ServerFutures ==
    ASSUME OrderInv, FuturesInv, Main \/ Signal \/ Shutdown \/ Terminated \/ UNCHANGED vars
    PROVE  FuturesInv'
<1>1. TypeOK /\ PendingExactlyOnce /\ FuturesAwaitPut /\ AbortsAreMarked /\ RepliesFollowFutures
  BY DEF OrderInv, FuturesInv
<1>2. UNCHANGED <<future, queue, batch, batcherFatal>>
  BY Zenon DEF Main, LoadOk, LoadFail, Publish, ServerThreadEnded, CloseSetStop, CloseJoin,
        CloseModel, Exit, Signal, Shutdown, Terminated, vars, handlerVars, batcherVars
<1>3. PendingExactlyOnce'
  BY <1>1, <1>2 DEF PendingExactlyOnce
<1>4. UNCHANGED bpc \/ bpc' = [t \in Tasks |-> "loop"]
  BY Zenon DEF Main, LoadOk, LoadFail, Publish, ServerThreadEnded, CloseSetStop, CloseJoin,
        CloseModel, Exit, Signal, Shutdown, Terminated, vars, batcherVars
<1>5. AbortsAreMarked'
  BY <1>1, <1>2, <1>4 DEF AbortsAreMarked
<1>6. CASE Exit
  <2>1. /\ mpc' = "exited"
        /\ \A r \in Requests :
              /\ hpc'[r] = IF hpc[r] \notin {"idle", "done"} THEN "done" ELSE hpc[r]
              /\ reply'[r] = IF hpc[r] \notin {"idle", "done"} THEN "reset" ELSE reply[r]
    BY <1>6 DEF Exit
  <2> QED BY <1>1, <1>2, <1>3, <1>5, <2>1
          DEF FuturesInv, FuturesAwaitPut, RepliesFollowFutures, Alive
<1>7. CASE ~Exit
  <2>1. UNCHANGED <<hpc, reply>>
    BY <1>7, Zenon DEF Main, LoadOk, LoadFail, Publish, ServerThreadEnded, CloseSetStop,
          CloseJoin, CloseModel, Signal, Shutdown, Terminated, vars, handlerVars
  <2>2. ~Alive => ~Alive'
    BY <1>7 DEF Main, LoadOk, LoadFail, Publish, ServerThreadEnded, CloseSetStop, CloseJoin,
          CloseModel, Signal, Shutdown, Terminated, vars, serverVars, Alive
  <2> QED BY <1>1, <1>2, <1>3, <1>5, <2>1, <2>2
          DEF FuturesInv, FuturesAwaitPut, RepliesFollowFutures
<1> QED BY <1>6, <1>7

LEMMA FuturesInvariance == Spec => []FuturesInv
<1>1. Init => FuturesInv
  <2> SUFFICES ASSUME Init PROVE FuturesInv
    OBVIOUS
  <2>1. FuturesAwaitPut /\ AbortsAreMarked /\ RepliesFollowFutures
    BY DEF Init, FuturesAwaitPut, AbortsAreMarked, RepliesFollowFutures
  <2>2. PendingExactlyOnce
    BY OccurrencesOfEmpty DEF Init, PendingExactlyOnce
  <2> QED BY <2>1, <2>2 DEF FuturesInv
<1>2. OrderInv /\ FuturesInv /\ [Next]_vars => FuturesInv'
  BY HandlerFutures, BatcherFutures, ServerFutures DEF Next
<1> QED BY <1>1, <1>2, OrderInvariance, PTL DEF Spec

(* No accepted request is lost, doubled or settled twice: one whose future is*)
(* pending is exactly once in the queue or the batch of its own task, and    *)
(* nothing else is there, whatever aborts, closes and failures interleave.   *)
THEOREM NothingLostOrDoubled == Spec => []PendingExactlyOnce
<1>1. FuturesInv => PendingExactlyOnce
  BY DEF FuturesInv
<1> QED BY <1>1, FuturesInvariance, PTL

(* A client gets 200 only with a score, a future fails only because a batcher*)
(* has recorded its failure, and a pending one has a handler waiting for it. *)
THEOREM AnswersAreEarned == Spec => []RepliesFollowFutures
<1>1. FuturesInv => RepliesFollowFutures
  BY DEF FuturesInv
<1> QED BY <1>1, FuturesInvariance, PTL

-----------------------------------------------------------------------------
(* The end of the process.                                                   *)

(* The main thread has joined the batchers it has closed.                    *)
Joined ==
    /\ mpc = "loading" => \A t \in Tasks : bpc[t] = "off"
    /\ ~timedOut /\ mpc \in {"closeGate", "joinGate"} => bpc["R4"] = "ended"
    /\ ~timedOut /\ mpc \in {"closeModel", "exit", "exited"}
          => \A t \in Tasks : bpc[t] \in {"off", "ended"}

(* The failure of a batcher is published on its way out.                     *)
FailurePublished ==
    /\ \A t \in Tasks : bpc[t] \in {"abortR4", "drainR4", "abortGate", "drainGate"} => fatal
    /\ (\E t \in Tasks : batcherFatal[t])
          => fatal \/ \E t \in Tasks : bpc[t] \in {"drainOwn", "failBatch", "publishFatal"}

ExitCodeIsFatal == ~Alive => (exitCode = 1 <=> fatal)

EndInv == Joined /\ FailurePublished /\ ExitCodeIsFatal

LEMMA HandlerEnd ==
    ASSUME EndInv, NEW r \in Requests, Arrive(r) \/ Handler(r)
    PROVE  EndInv'
<1>1. UNCHANGED <<bpc, batcherFatal, mpc, fatal, timedOut, exitCode>>
  BY Zenon DEF Arrive, Handler, ReadState, SubmitCheck, Put, Result, Answer,
        serverVars, batcherVars
<1> QED BY <1>1 DEF EndInv, Joined, FailurePublished, ExitCodeIsFatal, Alive

LEMMA BatcherEnd ==
    ASSUME TypeOK, EndInv, NEW t \in Tasks, Batcher(t)
    PROVE  EndInv'
<1> USE DEF EndInv
<1>1. UNCHANGED <<mpc, timedOut, exitCode>> /\ Alive
  BY Zenon DEF Batcher, LoopTest, GetEmpty, GetFirst, CollectMore, TakeNext, EnterRun,
        WakeInRun, InferOk, InferFail, Resolve, FailBatch, SettleFirst, EndOfBatch,
        AbortMark, DrainOne, DrainEnd, PublishFatal, serverVars
<1>2. bpc[t] \notin {"off", "ended"} /\ \A u \in Tasks \ {t} : bpc'[u] = bpc[u]
  BY DEF Batcher, LoopTest, GetEmpty, GetFirst, CollectMore, TakeNext, EnterRun,
        WakeInRun, InferOk, InferFail, Resolve, FailBatch, SettleFirst, EndOfBatch,
        AbortMark, DrainOne, DrainEnd, PublishFatal, Goto, TypeOK, batcherVars
<1>3. Joined'
  BY <1>1, <1>2 DEF Joined, Tasks
<1>4. ExitCodeIsFatal'
  BY <1>1 DEF ExitCodeIsFatal, Alive
<1>5. FailurePublished'
  <2>1. CASE AbortMark(t)
    <3>1. UNCHANGED fatal
      BY <2>1, Zenon DEF AbortMark, serverVars
    <3>2. bpc' = [bpc EXCEPT ![t] = DrainPc(bpc[t])] /\ bpc[t] \in {"abortOwn", "abortR4", "abortGate"}
      BY <2>1 DEF AbortMark, Goto
    <3> QED BY <3>1, <3>2 DEF FailurePublished, DrainPc, TypeOK
  <2>2. CASE PublishFatal(t)
    <3>1. fatal' = TRUE
      BY <2>2, Zenon DEF PublishFatal
    <3> QED BY <3>1 DEF FailurePublished
  <2>3. CASE DrainEnd(t)
    <3>1. UNCHANGED <<fatal, batcherFatal>>
      BY <2>3, Zenon DEF DrainEnd
    <3>2. /\ bpc' = [bpc EXCEPT ![t] = AfterDrain(bpc[t])]
          /\ bpc[t] \in {"drainOwn", "drainR4", "drainGate"}
      BY <2>3 DEF DrainEnd, Goto
    <3> QED BY <3>1, <3>2 DEF FailurePublished, AfterDrain, TypeOK
  <2>4. CASE FailBatch(t)
    <3>1. UNCHANGED <<fatal, batcherFatal>> /\ bpc[t] = "failBatch"
      BY <2>4, Zenon DEF FailBatch, SettleFirst, EndOfBatch, serverVars
    <3>2. UNCHANGED bpc \/ bpc' = [bpc EXCEPT ![t] = "publishFatal"]
      BY <2>4, Zenon DEF FailBatch, SettleFirst, EndOfBatch, Goto
    <3> QED BY <3>1, <3>2 DEF FailurePublished, TypeOK
  <2>5. CASE ~AbortMark(t) /\ ~PublishFatal(t) /\ ~DrainEnd(t) /\ ~FailBatch(t)
    <3>1. UNCHANGED <<fatal, batcherFatal>>
      BY <2>5, Zenon DEF Batcher, LoopTest, GetEmpty, GetFirst, CollectMore, TakeNext, EnterRun,
            WakeInRun, InferOk, InferFail, Resolve, SettleFirst, EndOfBatch, DrainOne,
            batcherVars, serverVars
    <3>2. \/ UNCHANGED bpc
          \/ /\ bpc[t] \in {"loop", "get", "collect", "run", "resolve"}
             /\ \E pc \in {"loop", "get", "collect", "run", "resolve", "abortOwn", "ended"} :
                    bpc' = [bpc EXCEPT ![t] = pc]
      BY <2>5 DEF Batcher, LoopTest, GetEmpty, GetFirst, CollectMore, TakeNext, EnterRun,
            WakeInRun, InferOk, InferFail, Resolve, SettleFirst, EndOfBatch, DrainOne,
            Goto, batcherVars
    <3> QED BY <3>1, <3>2 DEF FailurePublished, TypeOK
  <2> QED BY <2>1, <2>2, <2>3, <2>4, <2>5
<1> QED BY <1>3, <1>4, <1>5

LEMMA ServerEnd ==
    ASSUME TypeOK, EndInv, Main \/ Signal \/ Shutdown \/ Terminated \/ UNCHANGED vars
    PROVE  EndInv'
<1> USE DEF EndInv
<1>1. UNCHANGED batcherFatal
  BY Zenon DEF Main, LoadOk, LoadFail, Publish, ServerThreadEnded, CloseSetStop, CloseJoin,
        CloseModel, Exit, Signal, Shutdown, Terminated, vars, batcherVars
<1>2. CASE LoadOk
  <2>1. /\ mpc = "loading" /\ mpc' = "publish" /\ bpc' = [t \in Tasks |-> "loop"]
        /\ UNCHANGED <<fatal, timedOut, exitCode>>
    BY <1>2, Zenon DEF LoadOk
  <2> QED BY <1>1, <2>1 DEF Joined, FailurePublished, ExitCodeIsFatal, Alive
<1>3. CASE LoadFail
  <2>1. /\ mpc = "loading" /\ mpc' = "closeModel" /\ fatal' = TRUE
        /\ UNCHANGED <<bpc, timedOut, exitCode>>
    BY <1>3, Zenon DEF LoadFail, batcherVars
  <2> QED BY <1>1, <2>1 DEF Joined, FailurePublished, ExitCodeIsFatal, Alive
<1>4. CASE Exit
  <2>1. /\ mpc = "exit" /\ mpc' = "exited" /\ exitCode' = IF fatal THEN 1 ELSE 0
        /\ UNCHANGED <<bpc, fatal, timedOut>>
    BY <1>4, Zenon DEF Exit, batcherVars
  <2> QED BY <1>1, <2>1 DEF Joined, FailurePublished, ExitCodeIsFatal, Alive
<1>5. ASSUME NEW task \in Tasks, NEW pc, NEW next, CloseJoin(task, pc, next),
             \/ task = "R4" /\ pc = "joinR4" /\ next = "closeGate"
             \/ task = "reasoning_gate" /\ pc = "joinGate" /\ next = "closeModel"
      PROVE  EndInv'
  <2>1. /\ mpc = pc /\ mpc' = next /\ UNCHANGED <<bpc, fatal, exitCode>>
        /\ timedOut' <=> (timedOut \/ bpc[task] # "ended")
    <3>1. mpc = pc /\ mpc' = next /\ UNCHANGED <<bpc, fatal, exitCode>>
      BY <1>5, Zenon DEF CloseJoin, batcherVars
    <3>2. timedOut' = (timedOut \/ bpc[task] # "ended")
      BY <1>5 DEF CloseJoin
    <3> QED BY <3>1, <3>2
  <2> QED BY <1>1, <1>5, <2>1 DEF Joined, FailurePublished, ExitCodeIsFatal, Alive, Tasks
<1>6. ASSUME UNCHANGED <<bpc, fatal, timedOut, exitCode>>,
             \/ mpc' = mpc
             \/ mpc = "publish" /\ mpc' = "join"
             \/ mpc = "join" /\ mpc' = "closeR4"
             \/ mpc = "closeR4" /\ mpc' = "joinR4"
             \/ mpc = "closeGate" /\ mpc' = "joinGate"
             \/ mpc = "closeModel" /\ mpc' = "exit"
      PROVE  EndInv'
  BY <1>1, <1>6 DEF Joined, FailurePublished, ExitCodeIsFatal, Alive
<1>7. CASE Publish \/ ServerThreadEnded \/ CloseModel \/ Signal \/ Shutdown \/ Terminated
           \/ UNCHANGED vars
  BY <1>6, <1>7, Zenon DEF Publish, ServerThreadEnded, CloseModel, Signal, Shutdown,
        Terminated, vars, batcherVars, serverVars
<1>8. ASSUME NEW task, NEW pc, NEW next, CloseSetStop(task, pc, next),
             \/ pc = "closeR4" /\ next = "joinR4"
             \/ pc = "closeGate" /\ next = "joinGate"
      PROVE  EndInv'
  BY <1>6, <1>8, Zenon DEF CloseSetStop
<1> QED BY <1>2, <1>3, <1>4, <1>5, <1>7, <1>8 DEF Main, Tasks

LEMMA EndInvariance == Spec => []EndInv
<1>1. Init => EndInv
  BY DEF Init, EndInv, Joined, FailurePublished, ExitCodeIsFatal, Alive
<1>2. TypeOK /\ EndInv /\ [Next]_vars => EndInv'
  BY HandlerEnd, BatcherEnd, ServerEnd DEF Next
<1> QED BY <1>1, <1>2, TypeCorrectness, PTL DEF Spec

(* The status of the process tells of a failed load or batch, and of nothing *)
(* else, unless a join of close() has timed out.                             *)
THEOREM ExitStatusTells == Spec => []ExitCodeTellsFailure
<1>1. EndInv => ExitCodeTellsFailure
  BY DEF EndInv, Joined, FailurePublished, ExitCodeIsFatal, ExitCodeTellsFailure, Alive
<1> QED BY <1>1, EndInvariance, PTL

(* The model is not closed under an inference, unless a join has timed out.  *)
THEOREM ModelOutlivesBatches == Spec => []ModelNotClosedInUse
<1>1. EndInv /\ RunMatchesScheduler => ModelNotClosedInUse
  BY DEF EndInv, Joined, RunMatchesScheduler, ModelNotClosedInUse
<1> QED BY <1>1, EndInvariance, RunsAreScheduled, PTL

-----------------------------------------------------------------------------
(* The refinement.                                                           *)

(* What the mapping relies on: the order of starting and failing, and that a *)
(* reply follows the future it answers.                                      *)
MapInv == OrderInv /\ FuturesInv

Verdict == [r \in Requests |-> ContractVerdict(r)]

ContractVars == <<ContractState, Verdict, exitCode>>

LEMMA MapInvFacts ==
    ASSUME MapInv
    PROVE  /\ TypeOK /\ BeforeReady /\ OnceReady
           /\ FuturesAwaitPut /\ AbortsAreMarked /\ RepliesFollowFutures
BY DEF MapInv, OrderInv, FuturesInv

(* A step that settles no verdict and moves no flag is a stutter.            *)
LEMMA Unseen ==
    ASSUME UNCHANGED <<ContractState, exitCode>>,
           \A r \in Requests : Verdict'[r] = Verdict[r]
    PROVE  [Contract!Next]_ContractVars
<1>1. Verdict' = Verdict
  BY DEF Verdict
<1> QED BY <1>1 DEF ContractVars

VerdictTable ==
    \A r \in Requests :
        /\ hpc[r] = "idle" => Verdict[r] = "none"
        /\ hpc[r] \in HandlerPcs \ {"idle", "done"} => Verdict[r] = "open"
        /\ hpc[r] = "done" /\ reply[r] = "200" => Verdict[r] = "score"
        /\ hpc[r] = "done" /\ reply[r] = "500" /\ future[r] = "failed"
              => Verdict[r] = "error"
        /\ hpc[r] = "done" /\ reply[r] = "reset" => Verdict[r] = "cut"
        /\ hpc[r] = "done" /\ reply[r] \notin {"200", "reset"}
              /\ ~(reply[r] = "500" /\ future[r] = "failed") => Verdict[r] = "refused"

LEMMA VerdictsFollowTable == VerdictTable /\ VerdictTable'
<1>1. VerdictTable
  BY DEF VerdictTable, Verdict, ContractVerdict, HandlerPcs
<1>2. VerdictTable'
  BY DEF VerdictTable, Verdict, ContractVerdict, HandlerPcs
<1> QED BY <1>1, <1>2

(* What the handler of a request has done decides on its verdict alone.      *)
LEMMA SameVerdict ==
    ASSUME NEW q \in Requests, hpc'[q] = hpc[q], reply'[q] = reply[q],
           hpc[q] = "done" => (future[q] = "failed" <=> future'[q] = "failed")
    PROVE  Verdict'[q] = Verdict[q]
BY DEF Verdict, ContractVerdict

LEMMA FlagsKeepState ==
    ASSUME UNCHANGED <<mpc, fatal, batcherFatal, ready>>
    PROVE  ContractState' = ContractState
BY DEF ContractState, Alive

LEMMA SettlesOne ==
    ASSUME NEW r \in Requests, NEW from, NEW to,
           Alive, Verdict[r] = from, Verdict'[r] = to,
           \A q \in Requests \ {r} : Verdict'[q] = Verdict[q],
           UNCHANGED <<ContractState, exitCode>>
    PROVE  Contract!Settle(r, from, to)
<1>1. ContractState # "gone"
  BY DEF ContractState
<1>2. Verdict' = [Verdict EXCEPT ![r] = to]
  BY DEF Verdict
<1> QED BY <1>1, <1>2 DEF Contract!Settle, Verdict

LEMMA HandlerImplements ==
    ASSUME MapInv, NEW r \in Requests, Arrive(r) \/ Handler(r)
    PROVE  [Contract!Next]_ContractVars
<1>1. /\ TypeOK /\ BeforeReady /\ OnceReady
      /\ FuturesAwaitPut /\ AbortsAreMarked /\ RepliesFollowFutures
  BY MapInvFacts
<1>2. UNCHANGED <<mpc, fatal, batcherFatal, ready, exitCode>> /\ Alive
  BY Zenon DEF Arrive, Handler, ReadState, SubmitCheck, Put, Result, Answer,
        batcherVars, serverVars
<1>3. UNCHANGED ContractState
  BY <1>2, FlagsKeepState
<1>4. ASSUME NEW next \in HandlerPcs, NEW status \in Replies,
             hpc' = [hpc EXCEPT ![r] = next],
             reply' = reply \/ reply' = [reply EXCEPT ![r] = status],
             \A q \in Requests \ {r} : future'[q] = future[q]
      PROVE  \A q \in Requests \ {r} : Verdict'[q] = Verdict[q]
  <2> TAKE q \in Requests \ {r}
  <2>1. hpc'[q] = hpc[q] /\ reply'[q] = reply[q] /\ future'[q] = future[q]
    BY <1>1, <1>4 DEF TypeOK
  <2> QED BY <2>1, SameVerdict
<1>5. CASE Arrive(r)
  <2>1. hpc[r] = "idle" /\ hpc' = [hpc EXCEPT ![r] = "read"] /\ UNCHANGED <<reply, future>>
    BY <1>5 DEF Arrive
  <2>2. hpc'[r] = "read" /\ "read" \in HandlerPcs \ {"idle", "done"}
    BY <1>1, <2>1 DEF TypeOK, HandlerPcs
  <2>3. Verdict[r] = "none" /\ Verdict'[r] = "open"
    BY <2>1, <2>2, VerdictsFollowTable DEF VerdictTable
  <2>4. \A q \in Requests \ {r} : Verdict'[q] = Verdict[q]
    BY <1>4, <2>1, <2>2 DEF Replies, HandlerPcs
  <2>5. Contract!Settle(r, "none", "open")
    BY <1>2, <1>3, <2>3, <2>4, SettlesOne
  <2> QED BY <2>5 DEF Contract!Open, Contract!Next
<1>6. ASSUME hpc[r] \in {"read", "submit", "put"},
             NEW next \in {"submit", "put", "wait"}, hpc' = [hpc EXCEPT ![r] = next],
             UNCHANGED reply, \A q \in Requests \ {r} : future'[q] = future[q]
      PROVE  [Contract!Next]_ContractVars
  <2>1. /\ hpc[r] \in HandlerPcs \ {"idle", "done"}
        /\ hpc'[r] \in HandlerPcs \ {"idle", "done"}
        /\ next \in HandlerPcs
    BY <1>1, <1>6 DEF TypeOK, HandlerPcs
  <2>2. Verdict[r] = "open" /\ Verdict'[r] = "open"
    BY <2>1, VerdictsFollowTable DEF VerdictTable
  <2>3. \A q \in Requests \ {r} : Verdict'[q] = Verdict[q]
    BY <1>4, <1>6, <2>1 DEF Replies
  <2> QED BY <1>2, <1>3, <2>2, <2>3, Unseen
<1>7. ASSUME NEW status \in Replies, hpc[r] \in HandlerPcs \ {"idle", "done"},
             Answer(r, status)
      PROVE  /\ Verdict[r] = "open" /\ \A q \in Requests \ {r} : Verdict'[q] = Verdict[q]
             /\ hpc'[r] = "done" /\ reply'[r] = status /\ future'[r] = future[r]
  <2>1. /\ hpc' = [hpc EXCEPT ![r] = "done"] /\ reply' = [reply EXCEPT ![r] = status]
        /\ UNCHANGED future /\ "done" \in HandlerPcs
    BY <1>7 DEF Answer, HandlerPcs
  <2>2. hpc'[r] = "done" /\ reply'[r] = status /\ future'[r] = future[r]
    BY <1>1, <2>1 DEF TypeOK
  <2>3. Verdict[r] = "open"
    BY <1>7, VerdictsFollowTable DEF VerdictTable
  <2> QED BY <1>4, <2>1, <2>2, <2>3
<1>8. ASSUME NEW status \in Replies \ {"200", "reset"}, hpc[r] \in {"read", "submit"},
             Answer(r, status)
      PROVE  [Contract!Next]_ContractVars
  <2>1. future[r] = "none" /\ hpc[r] \in HandlerPcs \ {"idle", "done"}
    BY <1>1, <1>8 DEF FuturesAwaitPut, HandlerPcs
  <2>2. /\ Verdict[r] = "open" /\ \A q \in Requests \ {r} : Verdict'[q] = Verdict[q]
        /\ hpc'[r] = "done" /\ reply'[r] = status /\ future'[r] = future[r]
    BY <1>7, <1>8, <2>1
  <2>3. Verdict'[r] = "refused"
    BY <1>8, <2>1, <2>2, VerdictsFollowTable DEF VerdictTable
  <2>4. Contract!Settle(r, "open", "refused")
    BY <1>2, <1>3, <2>2, <2>3, SettlesOne
  <2> QED BY <2>4 DEF Contract!Refuse, Contract!Next
<1>9. CASE Result(r)
  <2>1. hpc[r] = "wait" /\ hpc[r] \in HandlerPcs \ {"idle", "done"}
    BY <1>9 DEF Result, HandlerPcs
  <2>2. ContractState \in {"serving", "failed"}
    BY <1>1, <1>2, <2>1 DEF BeforeReady, OnceReady, ContractState
  <2>3. CASE future[r] = "ok" /\ Answer(r, "200")
    <3>1. /\ Verdict[r] = "open" /\ \A q \in Requests \ {r} : Verdict'[q] = Verdict[q]
          /\ hpc'[r] = "done" /\ reply'[r] = "200"
      BY <1>7, <2>1, <2>3 DEF Replies
    <3>2. Verdict'[r] = "score"
      BY <3>1, VerdictsFollowTable DEF VerdictTable
    <3>3. Contract!Settle(r, "open", "score")
      BY <1>2, <1>3, <3>1, <3>2, SettlesOne
    <3> QED BY <2>2, <3>3 DEF Contract!Score, Contract!Next
  <2>4. CASE future[r] = "failed" /\ Answer(r, "500")
    <3>1. /\ Verdict[r] = "open" /\ \A q \in Requests \ {r} : Verdict'[q] = Verdict[q]
          /\ hpc'[r] = "done" /\ reply'[r] = "500" /\ future'[r] = future[r]
      BY <1>7, <2>1, <2>4 DEF Replies
    <3>2. Verdict'[r] = "error"
      BY <2>4, <3>1, VerdictsFollowTable DEF VerdictTable
    <3>3. Contract!Settle(r, "open", "error")
      BY <1>2, <1>3, <3>1, <3>2, SettlesOne
    <3>4. ContractState = "failed"
      BY <1>1, <1>2, <2>4 DEF RepliesFollowFutures, ContractState
    <3> QED BY <3>3, <3>4 DEF Contract!Error, Contract!Next
  <2> QED BY <1>9, <2>3, <2>4 DEF Result
<1>10. CASE ReadState(r)
  <2>1. CASE \E status \in {"400", "500", "503"} : Answer(r, status)
    BY <1>8, <1>10, <2>1 DEF ReadState, Replies
  <2>2. CASE ~\E status \in {"400", "500", "503"} : Answer(r, status)
    BY <1>6, <1>10, <2>2 DEF ReadState
  <2> QED BY <2>1, <2>2
<1>11. CASE SubmitCheck(r)
  <2>1. CASE Answer(r, "500")
    BY <1>8, <1>11, <2>1 DEF SubmitCheck, Replies
  <2>2. CASE ~Answer(r, "500")
    BY <1>6, <1>11, <2>2 DEF SubmitCheck
  <2> QED BY <2>1, <2>2
<1>12. CASE Put(r)
  <2>1. \A q \in Requests \ {r} : future'[q] = future[q]
    BY <1>1, <1>12 DEF Put, TypeOK
  <2> QED BY <1>6, <1>12, <2>1 DEF Put
<1> QED BY <1>5, <1>9, <1>10, <1>11, <1>12 DEF Handler

(* The batchers settle futures, which their callers do not see yet, and make *)
(* the service fail.                                                         *)
LEMMA BatcherImplements ==
    ASSUME MapInv, NEW t \in Tasks, Batcher(t)
    PROVE  [Contract!Next]_ContractVars
<1>1. /\ TypeOK /\ BeforeReady /\ OnceReady
      /\ FuturesAwaitPut /\ AbortsAreMarked /\ RepliesFollowFutures
  BY MapInvFacts
<1>2. UNCHANGED <<hpc, reply, mpc, exitCode>>
  BY Zenon DEF Batcher, LoopTest, GetEmpty, GetFirst, CollectMore, TakeNext, EnterRun,
        WakeInRun, InferOk, InferFail, Resolve, FailBatch, SettleFirst, EndOfBatch,
        AbortMark, DrainOne, DrainEnd, PublishFatal, handlerVars, serverVars
<1>3. Alive
  BY Zenon DEF Batcher, LoopTest, GetEmpty, GetFirst, CollectMore, EnterRun, WakeInRun,
        InferOk, InferFail, Resolve, FailBatch, AbortMark, DrainOne, DrainEnd, PublishFatal
<1>4. ASSUME NEW q \in Requests PROVE Verdict'[q] = Verdict[q]
  <2>1. future'[q] = future[q] \/ future[q] = "pending"
    <3>1. PendingExactlyOnce
      BY DEF MapInv, FuturesInv
    <3>2. CASE DrainOne(t)
      <4>1. PICK first \in Requests :
                future[first] = "pending" /\ future' = [future EXCEPT ![first] = "failed"]
        BY <1>1, <3>1, <3>2, DrainOneKeepsOnce
      <4> QED BY <1>1, <4>1 DEF TypeOK
    <3>3. ASSUME NEW outcome \in {"ok", "failed"}, SettleFirst(t, outcome)
          PROVE  future'[q] = future[q] \/ future[q] = "pending"
      <4>1. Head(batch[t]) \in Requests /\ future[Head(batch[t])] = "pending"
            /\ future' = [future EXCEPT ![Head(batch[t])] = outcome]
        BY <1>1, <3>1, <3>3, SettleFirstKeepsOnce DEF SettleFirst
      <4> QED BY <1>1, <4>1 DEF TypeOK
    <3>4. CASE UNCHANGED future
      BY <3>4
    <3>5. DrainOne(t) \/ SettleFirst(t, "ok") \/ SettleFirst(t, "failed") \/ UNCHANGED future
      BY Zenon DEF Batcher, LoopTest, GetEmpty, GetFirst, CollectMore, TakeNext, EnterRun,
            WakeInRun, InferOk, InferFail, Resolve, FailBatch, EndOfBatch, AbortMark,
            DrainEnd, PublishFatal, handlerVars
    <3> QED BY <3>2, <3>3, <3>4, <3>5
  <2>2. future[q] = "pending" => hpc[q] # "done"
    BY <1>1, <1>3 DEF RepliesFollowFutures
  <2> QED BY <1>2, <2>1, <2>2, SameVerdict
<1>5. CASE UNCHANGED <<fatal, batcherFatal, ready>>
  <2>1. UNCHANGED ContractState
    BY <1>2, <1>5, FlagsKeepState
  <2> QED BY <1>2, <1>4, <2>1, Unseen
<1>6. CASE AbortMark(t) \/ PublishFatal(t)
  <2>1. ContractState' = "failed"
    <3>1. \E u \in Tasks : batcherFatal'[u]
      <4>1. CASE AbortMark(t)
        <5>1. batcherFatal' = [batcherFatal EXCEPT ![AbortTarget(t)] = TRUE]
          BY <4>1 DEF AbortMark
        <5>2. AbortTarget(t) \in Tasks
          BY <4>1 DEF AbortMark, AbortTarget, Tasks
        <5> QED BY <1>1, <5>1, <5>2 DEF TypeOK
      <4>2. CASE PublishFatal(t)
        BY <1>1, <4>2 DEF PublishFatal, AbortsAreMarked
      <4> QED BY <1>6, <4>1, <4>2
    <3> QED BY <1>2, <1>3, <3>1 DEF ContractState, Alive
  <2>2. ContractState \in {"starting", "serving", "failed"}
    BY <1>3 DEF ContractState
  <2>3. CASE ContractState = "failed"
    BY <1>2, <1>4, <2>1, <2>3, Unseen
  <2>4. CASE ContractState \in {"starting", "serving"}
    <3>1. Verdict' = Verdict
      BY <1>4 DEF Verdict
    <3>2. Contract!Fail
      BY <1>2, <2>1, <2>4, <3>1 DEF Contract!Fail, Verdict
    <3> QED BY <3>2 DEF Contract!Next
  <2> QED BY <2>2, <2>3, <2>4
<1> QED
  <2>1. UNCHANGED <<fatal, batcherFatal, ready>> \/ AbortMark(t) \/ PublishFatal(t)
    BY Zenon DEF Batcher, LoopTest, GetEmpty, GetFirst, CollectMore, TakeNext, EnterRun,
          WakeInRun, InferOk, InferFail, Resolve, FailBatch, SettleFirst, EndOfBatch,
          DrainOne, DrainEnd, batcherVars, serverVars
  <2> QED BY <1>5, <1>6, <2>1

LEMMA ServerImplements ==
    ASSUME MapInv, Main \/ Signal \/ Shutdown \/ Terminated \/ UNCHANGED vars
    PROVE  [Contract!Next]_ContractVars
<1>1. /\ TypeOK /\ BeforeReady /\ OnceReady
      /\ FuturesAwaitPut /\ AbortsAreMarked /\ RepliesFollowFutures
  BY MapInvFacts
<1>2. UNCHANGED <<future, batcherFatal>>
  BY Zenon DEF Main, LoadOk, LoadFail, Publish, ServerThreadEnded, CloseSetStop, CloseJoin,
        CloseModel, Exit, Signal, Shutdown, Terminated, vars, handlerVars, batcherVars
<1>3. ~Exit => UNCHANGED <<hpc, reply, exitCode>>
  BY Zenon DEF Main, LoadOk, LoadFail, Publish, ServerThreadEnded, CloseSetStop, CloseJoin,
        CloseModel, Signal, Shutdown, Terminated, vars, handlerVars, serverVars
<1>4. ~Exit => Verdict' = Verdict
  BY <1>2, <1>3 DEF Verdict, ContractVerdict
<1>5. CASE LoadFail
  <2>1. mpc = "loading" /\ mpc' = "closeModel" /\ fatal' = TRUE /\ UNCHANGED exitCode
    BY <1>5 DEF LoadFail
  <2>2. ContractState = "starting" /\ ContractState' = "failed"
    BY <1>1, <2>1 DEF BeforeReady, ContractState, Alive
  <2>3. ~Exit
    BY <2>1 DEF Exit
  <2>4. Contract!Fail
    BY <1>4, <2>1, <2>2, <2>3 DEF Contract!Fail, Verdict
  <2> QED BY <2>4 DEF Contract!Next
<1>6. CASE Publish
  <2>1. mpc = "publish" /\ mpc' = "join" /\ ready' = TRUE /\ UNCHANGED <<fatal, exitCode>>
    BY <1>6 DEF Publish
  <2>2. ContractState = "starting" /\ ContractState' = "serving"
    BY <1>1, <1>2, <2>1 DEF BeforeReady, ContractState, Alive
  <2>3. ~Exit
    BY <2>1 DEF Exit
  <2>4. Contract!Serve
    BY <1>4, <2>1, <2>2, <2>3 DEF Contract!Serve, Verdict
  <2> QED BY <2>4 DEF Contract!Next
<1>7. CASE Exit
  <2>1. /\ mpc = "exit" /\ mpc' = "exited" /\ exitCode' = IF fatal THEN 1 ELSE 0
        /\ \A r \in Requests :
              /\ hpc'[r] = IF hpc[r] \notin {"idle", "done"} THEN "done" ELSE hpc[r]
              /\ reply'[r] = IF hpc[r] \notin {"idle", "done"} THEN "reset" ELSE reply[r]
    BY <1>7 DEF Exit
  <2>2. ContractState # "gone" /\ ContractState' = "gone"
    BY <2>1 DEF ContractState, Alive
  <2>3. exitCode' \in IF ContractState = "failed" THEN {0, 1} ELSE {0}
    BY <2>1 DEF ContractState, Alive
  <2>4. ASSUME NEW r \in Requests
        PROVE  Verdict'[r] = IF Verdict[r] = "open" THEN "cut" ELSE Verdict[r]
    BY <1>2, <2>1 DEF Verdict, ContractVerdict
  <2>5. Verdict' = [r \in Requests |-> IF Verdict[r] = "open" THEN "cut" ELSE Verdict[r]]
    BY <2>4 DEF Verdict
  <2>6. Contract!Leave
    BY <2>2, <2>3, <2>5 DEF Contract!Leave, Verdict
  <2> QED BY <2>6 DEF Contract!Next
<1>8. CASE ~LoadFail /\ ~Publish /\ ~Exit
  <2>1. UNCHANGED <<fatal, ready>>
    BY <1>8, Zenon DEF Main, LoadOk, ServerThreadEnded, CloseSetStop, CloseJoin, CloseModel,
          Signal, Shutdown, Terminated, vars, serverVars
  <2>2. Alive' <=> Alive
    BY <1>8 DEF Main, LoadOk, ServerThreadEnded, CloseSetStop, CloseJoin, CloseModel,
          Signal, Shutdown, Terminated, vars, serverVars, Alive
  <2>3. UNCHANGED ContractState
    BY <1>2, <2>1, <2>2 DEF ContractState
  <2> QED BY <1>3, <1>4, <1>8, <2>3, Unseen
<1> QED BY <1>5, <1>6, <1>7, <1>8

(* Seen by its callers and by the script that started it, the service does   *)
(* what the contract allows: it turns ready once, fails for good, takes no   *)
(* score back, answers with an error only after a batch has failed, and its  *)
(* exit status is 1 only after a failure.                                    *)
THEOREM ServiceImplementsContract == Spec => ImplementsContract
<1>1. Init => Contract!Init
  <2> SUFFICES ASSUME Init PROVE Contract!Init
    OBVIOUS
  <2>1. ContractState = "starting" /\ exitCode = 0
    BY DEF Init, ContractState, Alive
  <2>2. \A r \in Requests : ContractVerdict(r) = "none"
    BY DEF Init, ContractVerdict
  <2> QED BY <2>1, <2>2 DEF Contract!Init
<1>2. MapInv /\ [Next]_vars => [Contract!Next]_ContractVars
  BY HandlerImplements, BatcherImplements, ServerImplements DEF Next
<1>3. Spec => []MapInv
  BY OrderInvariance, FuturesInvariance, PTL DEF MapInv
<1>4. Spec => [][Contract!Next]_ContractVars
  BY <1>2, <1>3, PTL DEF Spec
<1>5. Spec => Contract!Init
  BY <1>1 DEF Spec
<1> QED BY <1>4, <1>5, PTL DEF ImplementsContract, Contract!Spec, ContractVars, Verdict

=============================================================================
