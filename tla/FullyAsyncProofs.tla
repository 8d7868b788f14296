-------------------------- MODULE FullyAsyncProofs --------------------------
(***************************************************************************)
(* Safety of fully asynchronous training for every number of samples and   *)
(* every configuration: types, the bound on what is generated ahead, that  *)
(* no sample is lost or trained on twice, and that the end signal arrives. *)
(***************************************************************************)
EXTENDS FullyAsync, TLAPS

(* A batch is full exactly when it is trained on.                           *)
BatchInv == IF tpc = "train" THEN got = conf.required ELSE got < conf.required

(* staleness_samples misses one sample at most; while it is recomputed, no  *)
(* task is created, so the count and the queue cover every other sample.    *)
BudgetInv ==
    /\ Outstanding <= conf.max + 1
    /\ staleness >= Outstanding - 1
    /\ ppc = "get" => running + Samples(queue) <= conf.max
    /\ tpc = "counting" => /\ lock = "reset"
                           /\ counted + Length(queue) >= running + Samples(queue)
    /\ lock = "reset" => tpc = "counting"
    /\ ppc \in {"reap", "reapEnd"} => lock = "processor"

FeedInv ==
    /\ SamplesAccounted
    /\ ppc \in {"ending", "reapEnd"} => taken = Total + 1
    /\ Held = 1 => taken <= Total

(* What can still be put behind the signal leaves room for the signal.      *)
SignalInv ==
    /\ ppc # "done" => ~queue.ended /\ tpc # "done"
    /\ ~queue.ended /\ tpc # "done" => queue.behind = 0
    /\ ppc = "done" => queue.ended \/ tpc = "done"
    /\ tpc = "done" => ~queue.ended
    /\ Tasks <= conf.max /\ (ppc = "submit" => Tasks < conf.max)
    /\ failed > 0 => lost > 0
    /\ ppc \in {"finish", "done"} => running + (IF queue.ended THEN queue.behind ELSE 0) < conf.max
    /\ ppc \in {"finish", "done"} /\ lost = 0 => running = 0
    /\ lost = 0 => queue.behind = 0

IInv == TypeOK /\ BatchInv /\ BudgetInv /\ FeedInv /\ SignalInv

-----------------------------------------------------------------------------
(* The configuration of a run, as the provers need it.                      *)
LEMMA ConfFacts ==
    ASSUME conf \in Configs
    PROVE  /\ conf.required \in Nat /\ conf.required > 0
           /\ conf.sync \in Nat /\ conf.sync > 0
           /\ conf.max \in Nat /\ conf.max > 0
           /\ conf.standalone \in Nat /\ conf.hybrid \in Nat /\ conf.saveFreq \in Nat
           /\ Step \in Nat /\ Total \in Nat /\ Total > 0 /\ FeedMax \in Nat
<1>1. conf \in ConfigType
  BY ConfigAssumption
<1>2. /\ conf.required \in Nat /\ conf.required > 0
      /\ conf.sync \in Nat /\ conf.sync > 0
      /\ conf.max \in Nat /\ conf.max > 0
      /\ conf.standalone \in Nat /\ conf.hybrid \in Nat /\ conf.saveFreq \in Nat
  BY <1>1 DEF ConfigType
<1>3. Step \in Nat
  BY <1>2 DEF Step
<1> QED BY <1>2, <1>3, ConfigAssumption

(* Every step keeps the configuration.                                      *)
LEMMA ConfKept == ASSUME [Next]_vars PROVE conf' = conf /\ Step' = Step
<1>1. conf' = conf
  BY DEF Next, vars, Feed, Land, Fail, Processor, Check, Decide, Park, Drain, Resume, Get, Slot,
     Submit, Ending, ReapLocked, Finish, Spin, Monitor, MonitorLook, MonitorJudge, MonitorResume,
     Trainer, Gate, Collect, Train, Sync, ResetCount, ResetStaleness, Poll, Stopped
<1> QED BY <1>1 DEF Step

(* The operations of a queue.                                               *)
LEMMA QueueFacts ==
    ASSUME NEW q \in Queues
    PROVE  /\ Samples(q) \in Nat /\ Length(q) \in Nat
           /\ Samples(q) <= Length(q) /\ Length(q) <= Samples(q) + 1
BY DEF Queues, Samples, Length

LEMMA RestFacts ==
    ASSUME NEW q \in Queues, Length(q) > 0
    PROVE  /\ Rest(q) \in Queues /\ Length(Rest(q)) = Length(q) - 1
           /\ Samples(Rest(q)) = Samples(q) - IF q.ahead > 0 THEN 1 ELSE 0
<1>1. q.ahead \in Nat /\ q.ended \in BOOLEAN /\ q.behind \in Nat /\ (~q.ended => q.behind = 0)
  BY DEF Queues
<1>2. CASE q.ahead > 0
  <2>1. Rest(q) = [ahead |-> q.ahead - 1, ended |-> q.ended, behind |-> q.behind]
    BY <1>1, <1>2 DEF Rest, Queues
  <2> QED BY <1>1, <1>2, <2>1 DEF Queues, Length, Samples
<1>3. CASE q.ahead = 0
  <2>1. Rest(q) = [ahead |-> q.behind, ended |-> FALSE, behind |-> 0]
    BY <1>3 DEF Rest
  <2>2. q.ended
    BY <1>1, <1>3 DEF Length, Samples
  <2> QED BY <1>1, <1>3, <2>1, <2>2 DEF Queues, Length, Samples
<1> QED BY <1>1, <1>2, <1>3

LEMMA ExtendFacts ==
    ASSUME NEW q \in Queues, NEW e \in {"sample", "end"}, q.ended => e = "sample"
    PROVE  /\ Extend(q, e) \in Queues /\ Length(Extend(q, e)) = Length(q) + 1
           /\ Samples(Extend(q, e)) = Samples(q) + IF e = "sample" THEN 1 ELSE 0
<1>1. q.ahead \in Nat /\ q.ended \in BOOLEAN /\ q.behind \in Nat /\ (~q.ended => q.behind = 0)
  BY DEF Queues
<1>2. CASE e = "end"
  <2>1. Extend(q, e) = [ahead |-> q.ahead, ended |-> TRUE, behind |-> q.behind]
    BY <1>1, <1>2 DEF Extend, Queues
  <2>2. e # "sample"
    BY <1>2
  <2> QED BY <1>1, <2>1, <2>2 DEF Queues, Length, Samples
<1>3. CASE e = "sample" /\ q.ended
  <2>1. Extend(q, e) = [ahead |-> q.ahead, ended |-> TRUE, behind |-> q.behind + 1]
    BY <1>1, <1>3 DEF Extend, Queues
  <2>2. /\ Samples(q) = q.ahead + q.behind /\ Length(q) = q.ahead + q.behind + 1
        /\ Samples(Extend(q, e)) = q.ahead + (q.behind + 1)
        /\ Length(Extend(q, e)) = q.ahead + (q.behind + 1) + 1
    BY <1>1, <1>3, <2>1 DEF Length, Samples
  <2>3. Extend(q, e) \in Queues
    BY <1>1, <2>1 DEF Queues
  <2> QED BY <1>1, <1>3, <2>2, <2>3
<1>4. CASE e = "sample" /\ ~q.ended
  <2>1. Extend(q, e) = [ahead |-> q.ahead + 1, ended |-> FALSE, behind |-> 0]
    BY <1>1, <1>4 DEF Extend, Queues
  <2>2. /\ Samples(q) = q.ahead /\ Length(q) = q.ahead
        /\ Samples(Extend(q, e)) = q.ahead + 1 /\ Length(Extend(q, e)) = q.ahead + 1
    BY <1>1, <1>4, <2>1 DEF Length, Samples
  <2>3. Extend(q, e) \in Queues
    BY <1>1, <2>1 DEF Queues
  <2> QED BY <1>1, <1>4, <2>2, <2>3
<1> QED BY <1>2, <1>3, <1>4

(* What a put does to a queue within its bound.                             *)
LEMMA PutFacts ==
    ASSUME TypeOK, NEW e \in {"sample", "end"}, Put(e), queue.ended => e = "sample"
    PROVE  /\ queue' \in Queues /\ Length(queue') <= conf.max /\ dropped' \in Nat
           /\ Length(queue') >= Length(queue)
           /\ Samples(queue') + dropped'
                 = Samples(queue) + dropped + IF e = "sample" THEN 1 ELSE 0
           /\ Samples(queue') <= Samples(queue) + 1 /\ dropped' >= dropped
<1>1. /\ queue \in Queues /\ Length(queue) <= conf.max /\ conf.max \in Nat /\ conf.max > 0
      /\ dropped \in Nat /\ queue.ahead \in Nat
      /\ Samples(queue) \in Nat /\ Length(queue) \in Nat
  BY ConfFacts, QueueFacts DEF TypeOK, Queues
<1>2. CASE Full
  <2>1. Length(queue) = conf.max
    BY <1>1, <1>2 DEF Full
  <2>2. /\ Rest(queue) \in Queues /\ Length(Rest(queue)) = Length(queue) - 1
        /\ Samples(Rest(queue)) = Samples(queue) - IF queue.ahead > 0 THEN 1 ELSE 0
    BY <1>1, <2>1, RestFacts
  <2>3. Rest(queue).ended => e = "sample"
    BY <1>1 DEF Rest, Queues
  <2>4. /\ Extend(Rest(queue), e) \in Queues
        /\ Length(Extend(Rest(queue), e)) = Length(Rest(queue)) + 1
        /\ Samples(Extend(Rest(queue), e)) = Samples(Rest(queue)) + IF e = "sample" THEN 1 ELSE 0
    BY <2>2, <2>3, ExtendFacts
  <2>5. queue' = Extend(Rest(queue), e) /\ dropped' = dropped + IF queue.ahead > 0 THEN 1 ELSE 0
    BY <1>2 DEF Put
  <2> QED BY <1>1, <2>1, <2>2, <2>4, <2>5
<1>3. CASE ~Full
  <2>1. queue' = Extend(queue, e) /\ dropped' = dropped
    BY <1>1, <1>3 DEF Put
  <2>2. /\ Extend(queue, e) \in Queues /\ Length(Extend(queue, e)) = Length(queue) + 1
        /\ Samples(Extend(queue, e)) = Samples(queue) + IF e = "sample" THEN 1 ELSE 0
    BY <1>1, ExtendFacts
  <2> QED BY <1>1, <1>3, <2>1, <2>2 DEF Full
<1> QED BY <1>2, <1>3

(* Tasks that are reaped leave active_tasks; an exception loses what is     *)
(* held.                                                                    *)
LEMMA ReapFacts ==
    ASSUME TypeOK, NEW next, Reap(next)
    PROVE  /\ running' = running /\ landed' \in Nat /\ landed' <= landed
           /\ failed' \in Nat /\ failed' <= failed /\ lost' \in Nat
           /\ \/ lost' = lost /\ ppc' = next
              \/ lost' = lost + Held /\ failed > 0 /\ ppc' = "finish"
BY DEF Reap, TypeOK, Held

-----------------------------------------------------------------------------
(* The invariant holds initially.                                           *)
LEMMA InitInv == ASSUME Init PROVE IInv
<1>1. conf \in Configs
  BY DEF Init
<1>2. /\ fed = 0 /\ taken = 0 /\ running = 0 /\ landed = 0 /\ failed = 0 /\ lost = 0
      /\ queue = Empty /\ dropped = 0 /\ staleness = 0 /\ paused = FALSE /\ resume = TRUE
      /\ lock = "free" /\ ppc = "check" /\ mpc = "sleep" /\ tpc = "gate" /\ got = 0
      /\ local = 1 /\ updates = 0 /\ synced = 0 /\ saved = 0 /\ savedVersion = 0 /\ counted = 0
  BY Zenon DEF Init
<1>3. active \in BOOLEAN /\ need \in 0 .. Step
  <2>1. 0 \in 0 .. Step /\ Step \in 0 .. Step
    BY <1>1, ConfFacts
  <2> QED BY <2>1, Zenon DEF Init
<1>4. Empty \in Queues /\ Length(Empty) = 0 /\ Samples(Empty) = 0
      /\ Empty.ended = FALSE /\ Empty.behind = 0
  BY DEF Empty, Queues, Length, Samples
<1>5. TypeOK
  <2>1. conf.required \in Nat /\ conf.sync \in Nat /\ conf.sync > 0 /\ conf.max > 0
        /\ Total \in Nat /\ conf.max \in Nat
    BY <1>1, ConfFacts
  <2>2. queue \in Queues /\ Length(queue) <= conf.max
    BY <1>2, <1>4, <2>1
  <2>3. /\ fed \in 0 .. Total + 1 /\ taken \in 0 .. fed
        /\ {running, landed, failed, lost, dropped, staleness, counted} \subseteq Nat
        /\ got \in 0 .. conf.required /\ local \in 1 .. conf.sync
        /\ {updates, synced, saved, savedVersion} \subseteq Nat
    BY <1>2, <2>1
  <2> QED BY <1>1, <1>2, <1>3, <2>2, <2>3 DEF TypeOK
<1>6. Held = 0 /\ Tasks = 0 /\ Trained = 0
  BY <1>1, <1>2, ConfFacts DEF Held, Tasks, Trained
<1>7. BatchInv /\ BudgetInv /\ FeedInv /\ SignalInv
  BY <1>1, <1>2, <1>4, <1>6, ConfFacts DEF BatchInv, BudgetInv, FeedInv, SignalInv,
     SamplesAccounted, Outstanding
<1> QED BY <1>5, <1>7 DEF IInv

(* Types, and the size of the batch.                                        *)
LEMMA TypeStep ==
    ASSUME IInv, [Next]_vars PROVE TypeOK' /\ BatchInv'
<1>a. conf \in Configs /\ conf' = conf /\ Step' = Step
  BY ConfKept DEF IInv, TypeOK
<1>b. /\ Samples(queue) \in Nat /\ Length(queue) \in Nat
      /\ Samples(queue) <= Length(queue) /\ Length(queue) <= Samples(queue) + 1
  BY QueueFacts DEF IInv, TypeOK
<1>1. CASE Feed
  BY <1>1, <1>a, <1>b, ConfFacts DEF Feed, IInv, feedVars, taskVars, queueVars, pauseVars, trainerVars, TypeOK, BatchInv
<1>2. CASE Land
  <2>1. /\ queue' \in Queues /\ Length(queue') <= conf.max /\ dropped' \in Nat
        /\ Length(queue') >= Length(queue)
        /\ Samples(queue') + dropped' = Samples(queue) + dropped + 1
        /\ Samples(queue') <= Samples(queue) + 1 /\ dropped' >= dropped
    BY <1>2, PutFacts DEF Land, IInv, SignalInv
  <2>2. /\ Samples(queue) \in Nat /\ Length(queue) \in Nat
        /\ Samples(queue') \in Nat /\ Length(queue') \in Nat
        /\ Samples(queue) <= Length(queue) /\ Length(queue) <= Samples(queue) + 1
        /\ Samples(queue') <= Length(queue') /\ Length(queue') <= Samples(queue') + 1
    BY <2>1, QueueFacts DEF IInv, TypeOK
  <2> QED BY <1>2, <1>a, <1>b, <2>1, <2>2, ConfFacts DEF Land, IInv, feedVars, taskVars, queueVars, pauseVars, trainerVars, TypeOK, BatchInv
<1>3. CASE Fail
  BY <1>3, <1>a, <1>b, ConfFacts DEF Fail, IInv, feedVars, taskVars, queueVars, pauseVars, trainerVars, TypeOK, BatchInv
<1>4. CASE Check
  BY <1>4, <1>a, <1>b, ConfFacts DEF Check, IInv, feedVars, taskVars, queueVars, pauseVars, trainerVars, TypeOK, BatchInv
<1>5. CASE Decide
  BY <1>5, <1>a, <1>b, ConfFacts DEF Decide, IInv, feedVars, taskVars, queueVars, pauseVars, trainerVars, TypeOK, BatchInv
<1>6. CASE Park
  BY <1>6, <1>a, <1>b, ConfFacts DEF Park, IInv, feedVars, taskVars, queueVars, pauseVars, trainerVars, TypeOK, BatchInv
<1>7. CASE Drain
  <2>1. /\ running' = running /\ landed' \in Nat /\ landed' <= landed
        /\ failed' \in Nat /\ failed' <= failed /\ lost' \in Nat
    BY <1>7, ReapFacts DEF Drain, IInv
  <2>2. \/ lost' = lost /\ ppc' = "drain"
        \/ lost' = lost + Held /\ failed > 0 /\ ppc' = "finish"
    BY <1>7, ReapFacts DEF Drain, IInv
  <2>3. Held = 0 /\ Held' = 0
    BY <1>7, <2>2 DEF Drain, Held
  <2> QED BY <1>7, <1>a, <1>b, <2>1, <2>2, <2>3, ConfFacts DEF Drain, IInv, feedVars, taskVars, queueVars, pauseVars, trainerVars, TypeOK, BatchInv
<1>8. CASE Resume
  BY <1>8, <1>a, <1>b, ConfFacts DEF Resume, IInv, feedVars, taskVars, queueVars, pauseVars, trainerVars, TypeOK, BatchInv
<1>9. CASE Get
  BY <1>9, <1>a, <1>b, ConfFacts DEF Get, IInv, feedVars, taskVars, queueVars, pauseVars, trainerVars, TypeOK, BatchInv
<1>10. CASE Slot
  BY <1>10, <1>a, <1>b, ConfFacts DEF Slot, IInv, feedVars, taskVars, queueVars, pauseVars, trainerVars, TypeOK, BatchInv
<1>11. CASE Submit
  BY <1>11, <1>a, <1>b, ConfFacts DEF Submit, IInv, feedVars, taskVars, queueVars, pauseVars, trainerVars, TypeOK, BatchInv
<1>12. CASE Ending
  BY <1>12, <1>a, <1>b, ConfFacts DEF Ending, IInv, feedVars, taskVars, queueVars, pauseVars, trainerVars, TypeOK, BatchInv
<1>13. CASE ReapLocked
  <2>1. /\ running' = running /\ landed' \in Nat /\ landed' <= landed
        /\ failed' \in Nat /\ failed' <= failed /\ lost' \in Nat
    BY <1>13, ReapFacts DEF ReapLocked, IInv
  <2>2. \/ lost' = lost /\ ppc' = IF ppc = "reap" THEN "slot" ELSE "ending"
        \/ lost' = lost + Held /\ failed > 0 /\ ppc' = "finish"
    BY <1>13, ReapFacts DEF ReapLocked, IInv
  <2>3. CASE ppc = "reap"
    <3>1. Held = 1 /\ Held' = IF ppc' = "slot" THEN 1 ELSE 0
      BY <2>2, <2>3 DEF Held
    <3> QED BY <1>13, <1>a, <1>b, <2>1, <2>2, <2>3, <3>1, ConfFacts DEF ReapLocked, IInv, feedVars, taskVars, queueVars, pauseVars, trainerVars, TypeOK, BatchInv
  <2>4. CASE ppc = "reapEnd"
    <3>1. Held = 0 /\ Held' = 0
      BY <2>2, <2>4 DEF Held
    <3> QED BY <1>13, <1>a, <1>b, <2>1, <2>2, <2>4, <3>1, ConfFacts DEF ReapLocked, IInv, feedVars, taskVars, queueVars, pauseVars, trainerVars, TypeOK, BatchInv
  <2> QED BY <1>13, <2>3, <2>4 DEF ReapLocked
<1>14. CASE Finish
  <2>1. /\ queue' \in Queues /\ Length(queue') <= conf.max /\ dropped' \in Nat
        /\ Length(queue') >= Length(queue)
        /\ Samples(queue') + dropped' = Samples(queue) + dropped + 0
        /\ Samples(queue') <= Samples(queue) + 1 /\ dropped' >= dropped
    BY <1>14, PutFacts DEF Finish, IInv, SignalInv
  <2>2. /\ Samples(queue) \in Nat /\ Length(queue) \in Nat
        /\ Samples(queue') \in Nat /\ Length(queue') \in Nat
        /\ Samples(queue) <= Length(queue) /\ Length(queue) <= Samples(queue) + 1
        /\ Samples(queue') <= Length(queue') /\ Length(queue') <= Samples(queue') + 1
    BY <2>1, QueueFacts DEF IInv, TypeOK
  <2> QED BY <1>14, <1>a, <1>b, <2>1, <2>2, ConfFacts DEF Finish, IInv, feedVars, taskVars, queueVars, pauseVars, trainerVars, TypeOK, BatchInv
<1>15. CASE MonitorLook
  BY <1>15, <1>a, <1>b, ConfFacts DEF MonitorLook, IInv, feedVars, taskVars, queueVars, pauseVars, trainerVars, TypeOK, BatchInv
<1>16. CASE MonitorJudge
  BY <1>16, <1>a, <1>b, ConfFacts DEF MonitorJudge, IInv, feedVars, taskVars, queueVars, pauseVars, trainerVars, TypeOK, BatchInv
<1>17. CASE MonitorResume
  BY <1>17, <1>a, <1>b, ConfFacts DEF MonitorResume, IInv, feedVars, taskVars, queueVars, pauseVars, trainerVars, TypeOK, BatchInv
<1>18. CASE Gate
  BY <1>18, <1>a, <1>b, ConfFacts DEF Gate, IInv, feedVars, taskVars, queueVars, pauseVars, trainerVars, TypeOK, BatchInv
<1>19. CASE Collect
  <2>1. queue' \in Queues /\ Length(queue') <= conf.max
    BY <1>19, <1>a, <1>b, ConfFacts DEF Collect, Rest, Length, Samples, Queues, IInv, TypeOK
  <2>2. updates \div conf.sync \in Nat
    BY <1>a, <1>b, ConfFacts DEF IInv, TypeOK
  <2> QED BY <1>19, <1>a, <1>b, <2>1, <2>2, ConfFacts DEF Collect, SaveLast, Version, IInv, feedVars, taskVars, queueVars, pauseVars, trainerVars, TypeOK, BatchInv
<1>20. CASE Train
  BY <1>20, <1>a, <1>b, ConfFacts DEF Train, IInv, feedVars, taskVars, queueVars, pauseVars, trainerVars, TypeOK, BatchInv
<1>21. CASE Sync
  <2>1. 0 \in 0 .. Step /\ Step \in 0 .. Step
    BY <1>a, ConfFacts
  <2>2. active' \in BOOLEAN /\ need' \in 0 .. Step
    BY <1>21, <2>1, Zenon DEF Sync, Activation
  <2> QED BY <1>21, <1>a, <1>b, <2>2, ConfFacts DEF Sync, IInv, feedVars, taskVars, queueVars, pauseVars, trainerVars, TypeOK, BatchInv
<1>22. CASE ResetCount
  <2>1. Tasks \in Nat
    BY DEF Tasks, IInv, TypeOK
  <2> QED BY <1>22, <1>a, <1>b, <2>1, ConfFacts DEF ResetCount, IInv, feedVars, taskVars, queueVars, pauseVars, trainerVars, TypeOK, BatchInv
<1>23. CASE ResetStaleness
  <2>1. updates \div conf.sync \in Nat /\ Length(queue) \in Nat
    BY <1>a, <1>b, ConfFacts DEF IInv, TypeOK, Queues, Length, Samples
  <2> QED BY <1>23, <1>a, <1>b, <2>1, ConfFacts DEF ResetStaleness, Version, IInv, feedVars, taskVars, queueVars, pauseVars, trainerVars, TypeOK, BatchInv
<1>24. CASE UNCHANGED vars
  BY <1>24, <1>a, <1>b, ConfFacts DEF vars, IInv, feedVars, taskVars, queueVars, pauseVars, trainerVars, TypeOK, BatchInv
<1> QED
  BY <1>1, <1>2, <1>3, <1>4, <1>5, <1>6, <1>7, <1>8, <1>9, <1>10, <1>11, <1>12, <1>13, <1>14, <1>15, <1>16, <1>17, <1>18, <1>19, <1>20, <1>21, <1>22, <1>23, <1>24 DEF Next, Processor, Spin, Monitor, Trainer, Poll, Stopped

(* The staleness budget.                                                    *)
LEMMA BudgetStep ==
    ASSUME IInv, [Next]_vars PROVE BudgetInv'
<1>a. conf \in Configs /\ conf' = conf /\ Step' = Step
  BY ConfKept DEF IInv, TypeOK
<1>b. /\ Samples(queue) \in Nat /\ Length(queue) \in Nat
      /\ Samples(queue) <= Length(queue) /\ Length(queue) <= Samples(queue) + 1
  BY QueueFacts DEF IInv, TypeOK
<1>1. CASE Feed
  BY <1>1, <1>a, <1>b, ConfFacts DEF Feed, IInv, feedVars, taskVars, queueVars, pauseVars, trainerVars, BudgetInv, Outstanding, Held, TypeOK
<1>2. CASE Land
  <2>1. /\ queue' \in Queues /\ Length(queue') <= conf.max /\ dropped' \in Nat
        /\ Length(queue') >= Length(queue)
        /\ Samples(queue') + dropped' = Samples(queue) + dropped + 1
        /\ Samples(queue') <= Samples(queue) + 1 /\ dropped' >= dropped
    BY <1>2, PutFacts DEF Land, IInv, SignalInv
  <2>2. /\ Samples(queue) \in Nat /\ Length(queue) \in Nat
        /\ Samples(queue') \in Nat /\ Length(queue') \in Nat
        /\ Samples(queue) <= Length(queue) /\ Length(queue) <= Samples(queue) + 1
        /\ Samples(queue') <= Length(queue') /\ Length(queue') <= Samples(queue') + 1
    BY <2>1, QueueFacts DEF IInv, TypeOK
  <2> QED BY <1>2, <1>a, <1>b, <2>1, <2>2, ConfFacts DEF Land, IInv, feedVars, taskVars, queueVars, pauseVars, trainerVars, BudgetInv, Outstanding, Held, TypeOK
<1>3. CASE Fail
  BY <1>3, <1>a, <1>b, ConfFacts DEF Fail, IInv, feedVars, taskVars, queueVars, pauseVars, trainerVars, BudgetInv, Outstanding, Held, TypeOK
<1>4. CASE Check
  BY <1>4, <1>a, <1>b, ConfFacts DEF Check, IInv, feedVars, taskVars, queueVars, pauseVars, trainerVars, BudgetInv, Outstanding, Held, TypeOK
<1>5. CASE Decide
  BY <1>5, <1>a, <1>b, ConfFacts DEF Decide, Stale, IInv, feedVars, taskVars, queueVars, pauseVars, trainerVars, BudgetInv, Outstanding, Held, TypeOK
<1>6. CASE Park
  BY <1>6, <1>a, <1>b, ConfFacts DEF Park, IInv, feedVars, taskVars, queueVars, pauseVars, trainerVars, BudgetInv, Outstanding, Held, TypeOK
<1>7. CASE Drain
  <2>1. /\ running' = running /\ landed' \in Nat /\ landed' <= landed
        /\ failed' \in Nat /\ failed' <= failed /\ lost' \in Nat
    BY <1>7, ReapFacts DEF Drain, IInv
  <2>2. \/ lost' = lost /\ ppc' = "drain"
        \/ lost' = lost + Held /\ failed > 0 /\ ppc' = "finish"
    BY <1>7, ReapFacts DEF Drain, IInv
  <2>3. Held = 0 /\ Held' = 0
    BY <1>7, <2>2 DEF Drain, Held
  <2> QED BY <1>7, <1>a, <1>b, <2>1, <2>2, <2>3, ConfFacts DEF Drain, IInv, feedVars, taskVars, queueVars, pauseVars, trainerVars, BudgetInv, Outstanding, TypeOK
<1>8. CASE Resume
  BY <1>8, <1>a, <1>b, ConfFacts DEF Resume, IInv, feedVars, taskVars, queueVars, pauseVars, trainerVars, BudgetInv, Outstanding, Held, TypeOK
<1>9. CASE Get
  BY <1>9, <1>a, <1>b, ConfFacts DEF Get, IInv, feedVars, taskVars, queueVars, pauseVars, trainerVars, BudgetInv, Outstanding, Held, TypeOK
<1>10. CASE Slot
  BY <1>10, <1>a, <1>b, ConfFacts DEF Slot, IInv, feedVars, taskVars, queueVars, pauseVars, trainerVars, BudgetInv, Outstanding, Held, TypeOK
<1>11. CASE Submit
  BY <1>11, <1>a, <1>b, ConfFacts DEF Submit, IInv, feedVars, taskVars, queueVars, pauseVars, trainerVars, BudgetInv, Outstanding, Held, TypeOK
<1>12. CASE Ending
  BY <1>12, <1>a, <1>b, ConfFacts DEF Ending, IInv, feedVars, taskVars, queueVars, pauseVars, trainerVars, BudgetInv, Outstanding, Held, TypeOK
<1>13. CASE ReapLocked
  <2>1. /\ running' = running /\ landed' \in Nat /\ landed' <= landed
        /\ failed' \in Nat /\ failed' <= failed /\ lost' \in Nat
    BY <1>13, ReapFacts DEF ReapLocked, IInv
  <2>2. \/ lost' = lost /\ ppc' = IF ppc = "reap" THEN "slot" ELSE "ending"
        \/ lost' = lost + Held /\ failed > 0 /\ ppc' = "finish"
    BY <1>13, ReapFacts DEF ReapLocked, IInv
  <2>3. CASE ppc = "reap"
    <3>1. Held = 1 /\ Held' = IF ppc' = "slot" THEN 1 ELSE 0
      BY <2>2, <2>3 DEF Held
    <3> QED BY <1>13, <1>a, <1>b, <2>1, <2>2, <2>3, <3>1, ConfFacts DEF ReapLocked, IInv, feedVars, taskVars, queueVars, pauseVars, trainerVars, BudgetInv, Outstanding, TypeOK
  <2>4. CASE ppc = "reapEnd"
    <3>1. Held = 0 /\ Held' = 0
      BY <2>2, <2>4 DEF Held
    <3> QED BY <1>13, <1>a, <1>b, <2>1, <2>2, <2>4, <3>1, ConfFacts DEF ReapLocked, IInv, feedVars, taskVars, queueVars, pauseVars, trainerVars, BudgetInv, Outstanding, TypeOK
  <2> QED BY <1>13, <2>3, <2>4 DEF ReapLocked
<1>14. CASE Finish
  <2>1. /\ queue' \in Queues /\ Length(queue') <= conf.max /\ dropped' \in Nat
        /\ Length(queue') >= Length(queue)
        /\ Samples(queue') + dropped' = Samples(queue) + dropped + 0
        /\ Samples(queue') <= Samples(queue) + 1 /\ dropped' >= dropped
    BY <1>14, PutFacts DEF Finish, IInv, SignalInv
  <2>2. /\ Samples(queue) \in Nat /\ Length(queue) \in Nat
        /\ Samples(queue') \in Nat /\ Length(queue') \in Nat
        /\ Samples(queue) <= Length(queue) /\ Length(queue) <= Samples(queue) + 1
        /\ Samples(queue') <= Length(queue') /\ Length(queue') <= Samples(queue') + 1
    BY <2>1, QueueFacts DEF IInv, TypeOK
  <2> QED BY <1>14, <1>a, <1>b, <2>1, <2>2, ConfFacts DEF Finish, IInv, feedVars, taskVars, queueVars, pauseVars, trainerVars, BudgetInv, Outstanding, Held, TypeOK
<1>15. CASE MonitorLook
  BY <1>15, <1>a, <1>b, ConfFacts DEF MonitorLook, IInv, feedVars, taskVars, queueVars, pauseVars, trainerVars, BudgetInv, Outstanding, Held, TypeOK
<1>16. CASE MonitorJudge
  BY <1>16, <1>a, <1>b, ConfFacts DEF MonitorJudge, IInv, feedVars, taskVars, queueVars, pauseVars, trainerVars, BudgetInv, Outstanding, Held, TypeOK
<1>17. CASE MonitorResume
  BY <1>17, <1>a, <1>b, ConfFacts DEF MonitorResume, IInv, feedVars, taskVars, queueVars, pauseVars, trainerVars, BudgetInv, Outstanding, Held, TypeOK
<1>18. CASE Gate
  BY <1>18, <1>a, <1>b, ConfFacts DEF Gate, IInv, feedVars, taskVars, queueVars, pauseVars, trainerVars, BudgetInv, Outstanding, Held, TypeOK
<1>19. CASE Collect
  <2>1. /\ Length(queue) > 0 /\ queue' = Rest(queue) /\ dropped' = dropped
    BY <1>19 DEF Collect, queueVars
  <2>2. /\ queue' \in Queues /\ Length(queue') = Length(queue) - 1
        /\ Samples(queue') = Samples(queue) - IF queue.ahead > 0 THEN 1 ELSE 0
    BY <2>1, RestFacts DEF IInv, TypeOK
  <2>3. queue.ahead \in Nat
    BY DEF IInv, TypeOK, Queues
  <2> QED BY <1>19, <1>a, <1>b, <2>1, <2>2, <2>3, ConfFacts DEF Collect, IInv, feedVars, taskVars, queueVars, pauseVars, trainerVars, BatchInv, BudgetInv, Outstanding, Held, TypeOK
<1>20. CASE Train
  BY <1>20, <1>a, <1>b, ConfFacts DEF Train, IInv, feedVars, taskVars, queueVars, pauseVars, trainerVars, BudgetInv, Outstanding, Held, TypeOK
<1>21. CASE Sync
  BY <1>21, <1>a, <1>b, ConfFacts DEF Sync, IInv, feedVars, taskVars, queueVars, pauseVars, trainerVars, BudgetInv, Outstanding, Held, TypeOK
<1>22. CASE ResetCount
  BY <1>22, <1>a, <1>b, ConfFacts DEF ResetCount, Tasks, IInv, feedVars, taskVars, queueVars, pauseVars, trainerVars, BudgetInv, Outstanding, Held, TypeOK
<1>23. CASE ResetStaleness
  BY <1>23, <1>a, <1>b, ConfFacts DEF ResetStaleness, IInv, feedVars, taskVars, queueVars, pauseVars, trainerVars, BudgetInv, Outstanding, Held, TypeOK
<1>24. CASE UNCHANGED vars
  BY <1>24, <1>a, <1>b, ConfFacts DEF vars, IInv, feedVars, taskVars, queueVars, pauseVars, trainerVars, BudgetInv, Outstanding, Held, TypeOK
<1> QED
  BY <1>1, <1>2, <1>3, <1>4, <1>5, <1>6, <1>7, <1>8, <1>9, <1>10, <1>11, <1>12, <1>13, <1>14, <1>15, <1>16, <1>17, <1>18, <1>19, <1>20, <1>21, <1>22, <1>23, <1>24 DEF Next, Processor, Spin, Monitor, Trainer, Poll, Stopped

(* Where the samples are.                                                   *)
LEMMA FeedStep ==
    ASSUME IInv, [Next]_vars PROVE FeedInv'
<1>a. conf \in Configs /\ conf' = conf /\ Step' = Step
  BY ConfKept DEF IInv, TypeOK
<1>b. /\ Samples(queue) \in Nat /\ Length(queue) \in Nat
      /\ Samples(queue) <= Length(queue) /\ Length(queue) <= Samples(queue) + 1
  BY QueueFacts DEF IInv, TypeOK
<1>c. Trained \in Nat /\ (updates' = updates => Trained' = Trained)
  BY <1>a, ConfFacts DEF Trained, IInv, TypeOK
<1>1. CASE Feed
  BY <1>1, <1>a, <1>b, <1>c, ConfFacts DEF Feed, IInv, feedVars, taskVars, queueVars, pauseVars, trainerVars, FeedInv, SamplesAccounted, Outstanding, Held, TypeOK
<1>2. CASE Land
  <2>1. /\ queue' \in Queues /\ Length(queue') <= conf.max /\ dropped' \in Nat
        /\ Length(queue') >= Length(queue)
        /\ Samples(queue') + dropped' = Samples(queue) + dropped + 1
        /\ Samples(queue') <= Samples(queue) + 1 /\ dropped' >= dropped
    BY <1>2, PutFacts DEF Land, IInv, SignalInv
  <2>2. /\ Samples(queue) \in Nat /\ Length(queue) \in Nat
        /\ Samples(queue') \in Nat /\ Length(queue') \in Nat
        /\ Samples(queue) <= Length(queue) /\ Length(queue) <= Samples(queue) + 1
        /\ Samples(queue') <= Length(queue') /\ Length(queue') <= Samples(queue') + 1
    BY <2>1, QueueFacts DEF IInv, TypeOK
  <2> QED BY <1>2, <1>a, <1>b, <1>c, <2>1, <2>2, ConfFacts DEF Land, IInv, feedVars, taskVars, queueVars, pauseVars, trainerVars, FeedInv, SamplesAccounted, Outstanding, Held, TypeOK
<1>3. CASE Fail
  BY <1>3, <1>a, <1>b, <1>c, ConfFacts DEF Fail, IInv, feedVars, taskVars, queueVars, pauseVars, trainerVars, FeedInv, SamplesAccounted, Outstanding, Held, TypeOK
<1>4. CASE Check
  BY <1>4, <1>a, <1>b, <1>c, ConfFacts DEF Check, IInv, feedVars, taskVars, queueVars, pauseVars, trainerVars, FeedInv, SamplesAccounted, Outstanding, Held, TypeOK
<1>5. CASE Decide
  BY <1>5, <1>a, <1>b, <1>c, ConfFacts DEF Decide, IInv, feedVars, taskVars, queueVars, pauseVars, trainerVars, FeedInv, SamplesAccounted, Outstanding, Held, TypeOK
<1>6. CASE Park
  BY <1>6, <1>a, <1>b, <1>c, ConfFacts DEF Park, IInv, feedVars, taskVars, queueVars, pauseVars, trainerVars, FeedInv, SamplesAccounted, Outstanding, Held, TypeOK
<1>7. CASE Drain
  <2>1. /\ running' = running /\ landed' \in Nat /\ landed' <= landed
        /\ failed' \in Nat /\ failed' <= failed /\ lost' \in Nat
    BY <1>7, ReapFacts DEF Drain, IInv
  <2>2. \/ lost' = lost /\ ppc' = "drain"
        \/ lost' = lost + Held /\ failed > 0 /\ ppc' = "finish"
    BY <1>7, ReapFacts DEF Drain, IInv
  <2>3. Held = 0 /\ Held' = 0
    BY <1>7, <2>2 DEF Drain, Held
  <2> QED BY <1>7, <1>a, <1>b, <1>c, <2>1, <2>2, <2>3, ConfFacts DEF Drain, IInv, feedVars, taskVars, queueVars, pauseVars, trainerVars, FeedInv, SamplesAccounted, Outstanding, TypeOK
<1>8. CASE Resume
  BY <1>8, <1>a, <1>b, <1>c, ConfFacts DEF Resume, IInv, feedVars, taskVars, queueVars, pauseVars, trainerVars, FeedInv, SamplesAccounted, Outstanding, Held, TypeOK
<1>9. CASE Get
  <2>1. CASE taken = Total
    BY <1>9, <1>a, <1>b, <1>c, <2>1, ConfFacts DEF Get, IInv, feedVars, taskVars, queueVars, pauseVars, trainerVars, FeedInv, SamplesAccounted, Outstanding, Held, TypeOK
  <2>2. CASE taken # Total
    BY <1>9, <1>a, <1>b, <1>c, <2>2, ConfFacts DEF Get, IInv, feedVars, taskVars, queueVars, pauseVars, trainerVars, FeedInv, SamplesAccounted, Outstanding, Held, TypeOK
  <2> QED BY <2>1, <2>2
<1>10. CASE Slot
  BY <1>10, <1>a, <1>b, <1>c, ConfFacts DEF Slot, IInv, feedVars, taskVars, queueVars, pauseVars, trainerVars, FeedInv, SamplesAccounted, Outstanding, Held, TypeOK
<1>11. CASE Submit
  BY <1>11, <1>a, <1>b, <1>c, ConfFacts DEF Submit, IInv, feedVars, taskVars, queueVars, pauseVars, trainerVars, FeedInv, SamplesAccounted, Outstanding, Held, TypeOK
<1>12. CASE Ending
  BY <1>12, <1>a, <1>b, <1>c, ConfFacts DEF Ending, IInv, feedVars, taskVars, queueVars, pauseVars, trainerVars, FeedInv, SamplesAccounted, Outstanding, Held, TypeOK
<1>13. CASE ReapLocked
  <2>1. /\ running' = running /\ landed' \in Nat /\ landed' <= landed
        /\ failed' \in Nat /\ failed' <= failed /\ lost' \in Nat
    BY <1>13, ReapFacts DEF ReapLocked, IInv
  <2>2. \/ lost' = lost /\ ppc' = IF ppc = "reap" THEN "slot" ELSE "ending"
        \/ lost' = lost + Held /\ failed > 0 /\ ppc' = "finish"
    BY <1>13, ReapFacts DEF ReapLocked, IInv
  <2>3. CASE ppc = "reap"
    <3>1. Held = 1 /\ Held' = IF ppc' = "slot" THEN 1 ELSE 0
      BY <2>2, <2>3 DEF Held
    <3> QED BY <1>13, <1>a, <1>b, <1>c, <2>1, <2>2, <2>3, <3>1, ConfFacts DEF ReapLocked, IInv, feedVars, taskVars, queueVars, pauseVars, trainerVars, FeedInv, SamplesAccounted, Outstanding, TypeOK
  <2>4. CASE ppc = "reapEnd"
    <3>1. Held = 0 /\ Held' = 0
      BY <2>2, <2>4 DEF Held
    <3> QED BY <1>13, <1>a, <1>b, <1>c, <2>1, <2>2, <2>4, <3>1, ConfFacts DEF ReapLocked, IInv, feedVars, taskVars, queueVars, pauseVars, trainerVars, FeedInv, SamplesAccounted, Outstanding, TypeOK
  <2> QED BY <1>13, <2>3, <2>4 DEF ReapLocked
<1>14. CASE Finish
  <2>1. /\ queue' \in Queues /\ Length(queue') <= conf.max /\ dropped' \in Nat
        /\ Length(queue') >= Length(queue)
        /\ Samples(queue') + dropped' = Samples(queue) + dropped + 0
        /\ Samples(queue') <= Samples(queue) + 1 /\ dropped' >= dropped
    BY <1>14, PutFacts DEF Finish, IInv, SignalInv
  <2>2. /\ Samples(queue) \in Nat /\ Length(queue) \in Nat
        /\ Samples(queue') \in Nat /\ Length(queue') \in Nat
        /\ Samples(queue) <= Length(queue) /\ Length(queue) <= Samples(queue) + 1
        /\ Samples(queue') <= Length(queue') /\ Length(queue') <= Samples(queue') + 1
    BY <2>1, QueueFacts DEF IInv, TypeOK
  <2> QED BY <1>14, <1>a, <1>b, <1>c, <2>1, <2>2, ConfFacts DEF Finish, IInv, feedVars, taskVars, queueVars, pauseVars, trainerVars, FeedInv, SamplesAccounted, Outstanding, Held, TypeOK
<1>15. CASE MonitorLook
  BY <1>15, <1>a, <1>b, <1>c, ConfFacts DEF MonitorLook, IInv, feedVars, taskVars, queueVars, pauseVars, trainerVars, FeedInv, SamplesAccounted, Outstanding, Held, TypeOK
<1>16. CASE MonitorJudge
  BY <1>16, <1>a, <1>b, <1>c, ConfFacts DEF MonitorJudge, IInv, feedVars, taskVars, queueVars, pauseVars, trainerVars, FeedInv, SamplesAccounted, Outstanding, Held, TypeOK
<1>17. CASE MonitorResume
  BY <1>17, <1>a, <1>b, <1>c, ConfFacts DEF MonitorResume, IInv, feedVars, taskVars, queueVars, pauseVars, trainerVars, FeedInv, SamplesAccounted, Outstanding, Held, TypeOK
<1>18. CASE Gate
  BY <1>18, <1>a, <1>b, <1>c, ConfFacts DEF Gate, IInv, feedVars, taskVars, queueVars, pauseVars, trainerVars, FeedInv, SamplesAccounted, Outstanding, Held, TypeOK
<1>19. CASE Collect
  <2>1. /\ Length(queue) > 0 /\ queue' = Rest(queue) /\ dropped' = dropped
    BY <1>19 DEF Collect, queueVars
  <2>2. /\ queue' \in Queues /\ Length(queue') = Length(queue) - 1
        /\ Samples(queue') = Samples(queue) - IF queue.ahead > 0 THEN 1 ELSE 0
    BY <2>1, RestFacts DEF IInv, TypeOK
  <2>3. queue.ahead \in Nat
    BY DEF IInv, TypeOK, Queues
  <2> QED BY <1>19, <1>a, <1>b, <1>c, <2>1, <2>2, <2>3, ConfFacts DEF Collect, IInv, feedVars, taskVars, queueVars, pauseVars, trainerVars, FeedInv, SamplesAccounted, Outstanding, Held, TypeOK
<1>20. CASE Train
  <2>1. got = conf.required /\ conf.required \in Nat /\ updates \in Nat
    BY <1>20, <1>a, ConfFacts DEF Train, IInv, BatchInv, TypeOK
  <2>2. conf.required * (updates + 1) = conf.required * updates + conf.required
    BY <2>1
  <2>3. updates' = updates + 1 /\ got' = 0
    BY <1>20 DEF Train
  <2>4. Trained' = Trained + conf.required
    BY <1>a, <2>2, <2>3 DEF Trained
  <2> QED BY <1>20, <1>a, <1>b, <1>c, <2>1, <2>3, <2>4, ConfFacts DEF Train, IInv, feedVars, taskVars, queueVars, pauseVars, trainerVars, FeedInv, SamplesAccounted, Outstanding, Held, TypeOK
<1>21. CASE Sync
  BY <1>21, <1>a, <1>b, <1>c, ConfFacts DEF Sync, IInv, feedVars, taskVars, queueVars, pauseVars, trainerVars, FeedInv, SamplesAccounted, Outstanding, Held, TypeOK
<1>22. CASE ResetCount
  BY <1>22, <1>a, <1>b, <1>c, ConfFacts DEF ResetCount, IInv, feedVars, taskVars, queueVars, pauseVars, trainerVars, FeedInv, SamplesAccounted, Outstanding, Held, TypeOK
<1>23. CASE ResetStaleness
  BY <1>23, <1>a, <1>b, <1>c, ConfFacts DEF ResetStaleness, IInv, feedVars, taskVars, queueVars, pauseVars, trainerVars, FeedInv, SamplesAccounted, Outstanding, Held, TypeOK
<1>24. CASE UNCHANGED vars
  BY <1>24, <1>a, <1>b, <1>c, ConfFacts DEF vars, IInv, feedVars, taskVars, queueVars, pauseVars, trainerVars, FeedInv, SamplesAccounted, Outstanding, Held, TypeOK
<1> QED
  BY <1>1, <1>2, <1>3, <1>4, <1>5, <1>6, <1>7, <1>8, <1>9, <1>10, <1>11, <1>12, <1>13, <1>14, <1>15, <1>16, <1>17, <1>18, <1>19, <1>20, <1>21, <1>22, <1>23, <1>24 DEF Next, Processor, Spin, Monitor, Trainer, Poll, Stopped

(* The end signal.                                                          *)
LEMMA SignalStep ==
    ASSUME IInv, [Next]_vars PROVE SignalInv'
<1>a. conf \in Configs /\ conf' = conf /\ Step' = Step
  BY ConfKept DEF IInv, TypeOK
<1>b. /\ Samples(queue) \in Nat /\ Length(queue) \in Nat
      /\ Samples(queue) <= Length(queue) /\ Length(queue) <= Samples(queue) + 1
  BY QueueFacts DEF IInv, TypeOK
<1>1. CASE Feed
  BY <1>1, <1>a, <1>b, ConfFacts DEF Feed, IInv, feedVars, taskVars, queueVars, pauseVars, trainerVars, SignalInv, Tasks, TypeOK, Queues
<1>2. CASE Land
  <2>1. /\ queue.ahead \in Nat /\ queue.behind \in Nat /\ queue.ended \in BOOLEAN
        /\ (~queue.ended => queue.behind = 0)
        /\ queue = [ahead |-> queue.ahead, ended |-> queue.ended, behind |-> queue.behind]
    BY DEF IInv, TypeOK, Queues
  <2>2. Full /\ queue.ended => queue.ahead > 0
    BY <1>2, <1>a, <1>b, <2>1, ConfFacts DEF Land, Full, Length, Samples, IInv, SignalInv, TypeOK
  <2>3. queue'.ended = queue.ended
    BY <1>2, <1>a, <1>b, <2>1, <2>2, ConfFacts DEF Land, Put, Extend, Rest, Full, Length, Samples, IInv, TypeOK
  <2>4. queue'.behind = queue.behind + (IF queue.ended THEN 1 ELSE 0)
    BY <1>2, <1>a, <1>b, <2>1, <2>2, ConfFacts DEF Land, Put, Extend, Rest, Full, Length, Samples, IInv,
       SignalInv, TypeOK
  <2>5. lost = 0 => queue'.behind = 0
    BY <1>2, <1>a, <1>b, <2>1, <2>2, ConfFacts DEF Land, Put, Extend, Rest, Full, Length, Samples, IInv,
       SignalInv, TypeOK
  <2> QED BY <1>2, <1>a, <1>b, <2>1, <2>3, <2>4, <2>5, ConfFacts DEF Land, IInv, feedVars, taskVars, queueVars, pauseVars, trainerVars, SignalInv, Tasks, TypeOK, Queues
<1>3. CASE Fail
  BY <1>3, <1>a, <1>b, ConfFacts DEF Fail, IInv, feedVars, taskVars, queueVars, pauseVars, trainerVars, SignalInv, Tasks, TypeOK, Queues
<1>4. CASE Check
  BY <1>4, <1>a, <1>b, ConfFacts DEF Check, IInv, feedVars, taskVars, queueVars, pauseVars, trainerVars, SignalInv, Tasks, TypeOK, Queues
<1>5. CASE Decide
  BY <1>5, <1>a, <1>b, ConfFacts DEF Decide, IInv, feedVars, taskVars, queueVars, pauseVars, trainerVars, SignalInv, Tasks, TypeOK, Queues
<1>6. CASE Park
  BY <1>6, <1>a, <1>b, ConfFacts DEF Park, IInv, feedVars, taskVars, queueVars, pauseVars, trainerVars, SignalInv, Tasks, TypeOK, Queues
<1>7. CASE Drain
  <2>1. /\ running' = running /\ landed' \in Nat /\ landed' <= landed
        /\ failed' \in Nat /\ failed' <= failed /\ lost' \in Nat
    BY <1>7, ReapFacts DEF Drain, IInv
  <2>2. \/ lost' = lost /\ ppc' = "drain"
        \/ lost' = lost + Held /\ failed > 0 /\ ppc' = "finish"
    BY <1>7, ReapFacts DEF Drain, IInv
  <2>3. Held = 0 /\ Held' = 0
    BY <1>7, <2>2 DEF Drain, Held
  <2> QED BY <1>7, <1>a, <1>b, <2>1, <2>2, <2>3, ConfFacts DEF Drain, IInv, feedVars, taskVars, queueVars, pauseVars, trainerVars, SignalInv, Tasks, TypeOK, Queues
<1>8. CASE Resume
  BY <1>8, <1>a, <1>b, ConfFacts DEF Resume, IInv, feedVars, taskVars, queueVars, pauseVars, trainerVars, SignalInv, Tasks, TypeOK, Queues
<1>9. CASE Get
  BY <1>9, <1>a, <1>b, ConfFacts DEF Get, IInv, feedVars, taskVars, queueVars, pauseVars, trainerVars, SignalInv, Tasks, TypeOK, Queues
<1>10. CASE Slot
  BY <1>10, <1>a, <1>b, ConfFacts DEF Slot, MaxConcurrent, IInv, feedVars, taskVars, queueVars, pauseVars, trainerVars, SignalInv, Tasks, TypeOK, Queues
<1>11. CASE Submit
  BY <1>11, <1>a, <1>b, ConfFacts DEF Submit, IInv, feedVars, taskVars, queueVars, pauseVars, trainerVars, SignalInv, Tasks, TypeOK, Queues
<1>12. CASE Ending
  <2>1. Tasks = 0 => running = 0
    BY DEF Tasks, IInv, TypeOK
  <2>2. queue.behind \in Nat
    BY DEF IInv, TypeOK, Queues
  <2>3. /\ running' = running /\ landed' = landed /\ failed' = failed /\ lost' = lost
        /\ queue' = queue /\ tpc' = tpc /\ Tasks' = Tasks
        /\ conf' = conf
    BY <1>12, <1>a DEF Ending, feedVars, taskVars, queueVars, pauseVars, trainerVars, Tasks
  <2>4. ppc = "ending" /\ ~queue.ended /\ tpc # "done"
    BY <1>12 DEF Ending, IInv, SignalInv
  <2>5. \/ ppc' = "finish" /\ running = 0
        \/ ppc' = "reapEnd"
    BY <1>12, <2>1 DEF Ending
  <2> QED BY <1>a, <2>2, <2>3, <2>4, <2>5, ConfFacts DEF IInv, SignalInv
<1>13. CASE ReapLocked
  <2>1. /\ running' = running /\ landed' \in Nat /\ landed' <= landed
        /\ failed' \in Nat /\ failed' <= failed /\ lost' \in Nat
    BY <1>13, ReapFacts DEF ReapLocked, IInv
  <2>2. \/ lost' = lost /\ ppc' = IF ppc = "reap" THEN "slot" ELSE "ending"
        \/ lost' = lost + Held /\ failed > 0 /\ ppc' = "finish"
    BY <1>13, ReapFacts DEF ReapLocked, IInv
  <2>3. CASE ppc = "reap"
    <3>1. Held = 1 /\ Held' = IF ppc' = "slot" THEN 1 ELSE 0
      BY <2>2, <2>3 DEF Held
    <3> QED BY <1>13, <1>a, <1>b, <2>1, <2>2, <2>3, <3>1, ConfFacts DEF ReapLocked, IInv, feedVars, taskVars, queueVars, pauseVars, trainerVars, SignalInv, Tasks, TypeOK, Queues
  <2>4. CASE ppc = "reapEnd"
    <3>1. Held = 0 /\ Held' = 0
      BY <2>2, <2>4 DEF Held
    <3> QED BY <1>13, <1>a, <1>b, <2>1, <2>2, <2>4, <3>1, ConfFacts DEF ReapLocked, IInv, feedVars, taskVars, queueVars, pauseVars, trainerVars, SignalInv, Tasks, TypeOK, Queues
  <2> QED BY <1>13, <2>3, <2>4 DEF ReapLocked
<1>14. CASE Finish
  <2>1. queue'.ended = TRUE /\ queue'.behind = 0
    BY <1>14, <1>a, <1>b, ConfFacts DEF Finish, Put, Extend, Rest, Full, Length, Samples, IInv, SignalInv,
       TypeOK, Queues
  <2> QED BY <1>14, <1>a, <1>b, <2>1, ConfFacts DEF Finish, IInv, feedVars, taskVars, queueVars, pauseVars, trainerVars, SignalInv, Tasks, TypeOK, Queues
<1>15. CASE MonitorLook
  BY <1>15, <1>a, <1>b, ConfFacts DEF MonitorLook, IInv, feedVars, taskVars, queueVars, pauseVars, trainerVars, SignalInv, Tasks, TypeOK, Queues
<1>16. CASE MonitorJudge
  BY <1>16, <1>a, <1>b, ConfFacts DEF MonitorJudge, IInv, feedVars, taskVars, queueVars, pauseVars, trainerVars, SignalInv, Tasks, TypeOK, Queues
<1>17. CASE MonitorResume
  BY <1>17, <1>a, <1>b, ConfFacts DEF MonitorResume, IInv, feedVars, taskVars, queueVars, pauseVars, trainerVars, SignalInv, Tasks, TypeOK, Queues
<1>18. CASE Gate
  BY <1>18, <1>a, <1>b, ConfFacts DEF Gate, IInv, feedVars, taskVars, queueVars, pauseVars, trainerVars, SignalInv, Tasks, TypeOK, Queues
<1>19. CASE Collect
  BY <1>19, <1>a, <1>b, ConfFacts DEF Collect, Rest, Length, Samples, IInv, feedVars, taskVars, queueVars, pauseVars, trainerVars, SignalInv, Tasks, TypeOK, Queues
<1>20. CASE Train
  BY <1>20, <1>a, <1>b, ConfFacts DEF Train, IInv, feedVars, taskVars, queueVars, pauseVars, trainerVars, SignalInv, Tasks, TypeOK, Queues
<1>21. CASE Sync
  BY <1>21, <1>a, <1>b, ConfFacts DEF Sync, IInv, feedVars, taskVars, queueVars, pauseVars, trainerVars, SignalInv, Tasks, TypeOK, Queues
<1>22. CASE ResetCount
  BY <1>22, <1>a, <1>b, ConfFacts DEF ResetCount, IInv, feedVars, taskVars, queueVars, pauseVars, trainerVars, SignalInv, Tasks, TypeOK, Queues
<1>23. CASE ResetStaleness
  BY <1>23, <1>a, <1>b, ConfFacts DEF ResetStaleness, IInv, feedVars, taskVars, queueVars, pauseVars, trainerVars, SignalInv, Tasks, TypeOK, Queues
<1>24. CASE UNCHANGED vars
  BY <1>24, <1>a, <1>b, ConfFacts DEF vars, IInv, feedVars, taskVars, queueVars, pauseVars, trainerVars, SignalInv, Tasks, TypeOK, Queues
<1> QED
  BY <1>1, <1>2, <1>3, <1>4, <1>5, <1>6, <1>7, <1>8, <1>9, <1>10, <1>11, <1>12, <1>13, <1>14, <1>15, <1>16, <1>17, <1>18, <1>19, <1>20, <1>21, <1>22, <1>23, <1>24 DEF Next, Processor, Spin, Monitor, Trainer, Poll, Stopped

-----------------------------------------------------------------------------
(* IInv is inductive.                                                       *)
THEOREM Invariant == Spec => []IInv
<1>1. Init => IInv
  BY InitInv
<1>2. IInv /\ [Next]_vars => IInv'
  BY TypeStep, BudgetStep, FeedStep, SignalStep DEF IInv
<1> QED BY <1>1, <1>2, PTL DEF Spec

(* Every variable keeps its type, in every configuration.                   *)
THEOREM TypesHold == Spec => []TypeOK
<1>1. IInv => TypeOK
  BY DEF IInv
<1> QED BY <1>1, Invariant, PTL

(* However the coroutines interleave, at most one sample more than the      *)
(* staleness budget is held, generated or queued.                           *)
THEOREM BudgetHolds == Spec => []OutstandingBounded
<1>1. IInv => OutstandingBounded
  BY DEF IInv, BudgetInv, OutstandingBounded
<1> QED BY <1>1, Invariant, PTL

(* Every sample taken from the feed is in exactly one place.                *)
THEOREM NoSampleVanishes == Spec => []SamplesAccounted
<1>1. IInv => SamplesAccounted
  BY DEF IInv, FeedInv
<1> QED BY <1>1, Invariant, PTL

(* The end signal is never dropped, and without an exception it comes last. *)
THEOREM SignalArrives == Spec => []EndSignalArrives
<1>1. IInv => EndSignalArrives
  BY DEF IInv, SignalInv, EndSignalArrives
<1> QED BY <1>1, Invariant, PTL

-----------------------------------------------------------------------------
(* What the rollout lacks of the trainer's updates is its position in the   *)
(* cycle, and the last save was made in the version it is remembered by.    *)
TailInv ==
    /\ tpc \in {"gate", "collect", "train", "done"} => updates = synced + local - 1
    /\ tpc = "sync" => local = 1 /\ updates = synced + conf.sync
    /\ tpc \in {"reset", "counting"} => local = 1 /\ updates = synced
    /\ saved <= updates /\ savedVersion = saved \div conf.sync
    /\ tpc = "done" /\ conf.saveFreq > 0 => savedVersion = Version

(* Two numbers of updates in the same version lie within one cycle.         *)
LEMMA SameVersion ==
    ASSUME NEW s \in Nat \ {0}, NEW a \in Nat, NEW b \in Nat, a \div s = b \div s
    PROVE  b - a < s
<1> DEFINE q == a \div s
<1>1. /\ q \in Int
      /\ a = s * q + (a % s) /\ b = s * q + (b % s)
      /\ a % s \in 0 .. s - 1 /\ b % s \in 0 .. s - 1
  OBVIOUS
<1>2. s * q \in Int
  BY <1>1
<1> HIDE DEF q
<1> DEFINE m == s * q
<1>3. m \in Int /\ a = m + (a % s) /\ b = m + (b % s)
  BY <1>1, <1>2
<1> HIDE DEF m
<1> QED BY <1>1, <1>3

LEMMA TailStep == ASSUME TypeOK, TailInv, [Next]_vars PROVE TailInv'
<1>a. conf' = conf /\ conf \in Configs /\ conf.sync \in Nat /\ conf.sync > 0
  BY ConfKept, ConfFacts DEF TypeOK
<1>b. /\ updates \in Nat /\ saved \in Nat /\ synced \in Nat /\ savedVersion \in Nat
      /\ local \in 1 .. conf.sync
  BY DEF TypeOK
<1> USE DEF TailInv, Version
<1>1. CASE UNCHANGED <<tpc, local, updates, synced, saved, savedVersion>>
  BY <1>1, <1>a
<1>2. CASE Gate
  BY <1>2, <1>a DEF Gate
<1>3. CASE Collect
  <2>1. CASE tpc' = "collect" \/ tpc' = "train"
    BY <1>3, <1>a, <2>1 DEF Collect
  <2>2. CASE tpc' = "done"
    <3>1. /\ tpc = "collect" /\ SaveLast /\ UNCHANGED <<local, updates, synced>>
      BY <1>3, <2>2 DEF Collect
    <3>2. CASE conf.saveFreq > 0 /\ Version # savedVersion
      <4>1. saved' = updates /\ savedVersion' = updates \div conf.sync
        BY <3>1, <3>2 DEF SaveLast
      <4> QED BY <3>1, <4>1, <2>2, <1>a, <1>b
    <3>3. CASE ~(conf.saveFreq > 0 /\ Version # savedVersion)
      <4>1. UNCHANGED <<saved, savedVersion>>
        BY <3>1, <3>3 DEF SaveLast
      <4> QED BY <3>1, <3>3, <4>1, <2>2, <1>a, <1>b
    <3> QED BY <3>2, <3>3
  <2> QED BY <1>3, <2>1, <2>2 DEF Collect
<1>4. CASE Train
  BY <1>4, <1>a, <1>b DEF Train
<1>5. CASE Sync
  BY <1>5, <1>a, <1>b DEF Sync
<1>6. CASE ResetCount
  BY <1>6, <1>a, <1>b DEF ResetCount
<1>7. CASE ResetStaleness
  <2>1. /\ tpc = "counting" /\ tpc' = "gate" /\ UNCHANGED <<local, updates, synced>>
        /\ \/ saved' = updates /\ savedVersion' = updates \div conf.sync
           \/ UNCHANGED <<saved, savedVersion>>
    BY <1>7 DEF ResetStaleness
  <2> QED BY <2>1, <1>a, <1>b
<1>8. CASE Feed \/ Land \/ Fail \/ Monitor
  BY <1>8, <1>1 DEF Feed, Land, Fail, Monitor, MonitorLook, MonitorJudge, MonitorResume, trainerVars
<1>9. CASE Processor
  BY <1>9, <1>1 DEF Processor, Check, Decide, Park, Drain, Resume, Get, Slot, Submit, Ending,
     ReapLocked, Finish, trainerVars
<1>10. CASE UNCHANGED vars
  BY <1>10, <1>1 DEF vars, trainerVars
<1> QED
  BY <1>2, <1>3, <1>4, <1>5, <1>6, <1>7, <1>8, <1>9, <1>10 DEF Next, Trainer, Spin, Poll, Stopped

(* Less than one cycle of updates is ever kept from the rollout or, when    *)
(* the run saves and is over, from the checkpoints.                         *)
THEOREM TailHolds == Spec => []TailBounded
<1>1. Init => TailInv
  <2> SUFFICES ASSUME Init PROVE TailInv
    OBVIOUS
  <2>1. conf.sync \in Nat /\ conf.sync > 0
    BY ConfFacts DEF Init
  <2>2. 0 \div conf.sync = 0
    BY <2>1
  <2> QED BY <2>1, <2>2 DEF Init, TailInv
<1>2. TypeOK /\ TailInv /\ [Next]_vars => TailInv'
  BY TailStep
<1>3. TypeOK /\ TailInv => TailBounded
  <2> SUFFICES ASSUME TypeOK, TailInv PROVE TailBounded
    OBVIOUS
  <2>1. /\ conf.sync \in Nat \ {0} /\ updates \in Nat /\ saved \in Nat /\ synced \in Nat
        /\ local \in 1 .. conf.sync
    BY ConfFacts DEF TypeOK
  <2>2. ASSUME tpc = "done", conf.saveFreq > 0 PROVE updates - saved < conf.sync
    BY <2>1, <2>2, SameVersion DEF TailInv, Version
  <2>3. ASSUME tpc \notin {"train", "sync"} PROVE updates - synced < conf.sync
    BY <2>1, <2>3 DEF TailInv, TypeOK
  <2> QED BY <2>2, <2>3 DEF TailBounded
<1> QED BY <1>1, <1>2, <1>3, TypesHold, PTL DEF Spec
=============================================================================
