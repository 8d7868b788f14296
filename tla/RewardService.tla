---------------------------- MODULE RewardService ----------------------------
(***************************************************************************)
(* reward_model_server.py: one process serving /score (task R4) and        *)
(* /classify-option-support (task reasoning_gate) over one resident model. *)
(* Its threads are                                                         *)
(*   - one HTTP handler per request (do_POST, DynamicBatcher.submit),      *)
(*   - one batcher per task (DynamicBatcher._run and _fail_fatally), which *)
(*     meet in the inference scheduler (module InferenceScheduler),        *)
(*   - the main thread (run_server: load, publish, wait, close, exit),     *)
(*   - the short threads that call shutdown() after a fatal error or a     *)
(*     signal.                                                             *)
(* A request carries its identity only: texts and scores do not matter to  *)
(* the control.  The batching window of max_wait_ms and the 0.1 s poll are *)
(* abstracted to choices: the window may close at any moment.              *)
(***************************************************************************)
EXTENDS Integers, FiniteSets, Sequences

CONSTANTS Requests,   \* one HTTP request, and the handler thread that serves it
          TaskOf,     \* the task each request asks for (its path)
          MaxBatch,   \* max_batch_size
          Faults      \* what may go wrong in the environment: see FaultKinds

Tasks == {"R4", "reasoning_gate"}

FaultKinds == {"load",      \* the model does not load
               "infer",     \* a batch raises or returns an invalid result
               "invalid",   \* a request body is malformed (400)
               "signal",    \* SIGINT or SIGTERM
               "slowjoin"}  \* a batcher outlives close()'s join(timeout=5)

ASSUME TaskOfAssumption == TaskOf \in [Requests -> Tasks]
ASSUME MaxBatchAssumption == MaxBatch \in Nat \ {0}
ASSUME FaultsAssumption == Faults \subseteq FaultKinds

VARIABLES
    \* handlers
    hpc,              \* where the handler of a request is
    future,           \* PendingRequest.future
    reply,            \* the HTTP status the client got, or "reset" or "none"
    \* batchers
    queue,            \* _queue
    batch,            \* the local batch of _run
    bpc,              \* where the batcher thread is
    stop,             \* _stop
    batcherFatal,     \* _fatal_error is not None
    \* scheduler
    active, waiting, arrivalSequence, phase,
    \* ServerState, main thread, HTTP server
    ready, fatal,     \* state.ready, state.fatal_error is not None
    mpc,              \* where the main thread is in run_server
    httpUp,           \* serve_forever is running
    shutdownPending,  \* a thread is about to call shutdown()
    modelOpen,        \* the model is loaded and not closed
    exitCode,         \* run_server's result, or 0 while it runs
    timedOut          \* history: a join of close() has timed out

handlerVars == <<hpc, future, reply>>
batcherVars == <<queue, batch, bpc, stop, batcherFatal>>
schedVars   == <<active, waiting, arrivalSequence, phase>>
serverVars  == <<ready, fatal, mpc, httpUp, shutdownPending, modelOpen, exitCode,
                 timedOut>>

vars == <<handlerVars, batcherVars, schedVars, serverVars>>

(* What _may_start reads of each task: len(values) + queued_count().  The   *)
(* queues belong to the batchers and move without the scheduler's lock.     *)
Total == [t \in Tasks |-> Len(batch[t]) + Len(queue[t])]

Sched == INSTANCE InferenceScheduler WITH total <- Total

HandlerPcs == {"idle", "read", "submit", "put", "wait", "done"}
Replies == {"none", "200", "400", "500", "503", "reset"}
BatcherPcs == {"off", "loop", "get", "collect", "run", "resolve",
               "abortOwn", "drainOwn", "failBatch", "publishFatal",
               "abortR4", "drainR4", "abortGate", "drainGate", "ended"}
MainPcs == {"loading", "publish", "join", "closeR4", "joinR4",
            "closeGate", "joinGate", "closeModel", "exit", "exited"}

TypeOK ==
    /\ hpc \in [Requests -> HandlerPcs]
    /\ future \in [Requests -> {"none", "pending", "ok", "failed"}]
    /\ reply \in [Requests -> Replies]
    /\ queue \in [Tasks -> Seq(Requests)]
    /\ batch \in [Tasks -> Seq(Requests)]
    /\ bpc \in [Tasks -> BatcherPcs]
    /\ stop \in [Tasks -> BOOLEAN]
    /\ batcherFatal \in [Tasks -> BOOLEAN]
    /\ Sched!SchedTypeOK
    /\ mpc \in MainPcs
    /\ ready \in BOOLEAN /\ fatal \in BOOLEAN /\ httpUp \in BOOLEAN
    /\ shutdownPending \in BOOLEAN /\ modelOpen \in BOOLEAN /\ timedOut \in BOOLEAN
    /\ exitCode \in {0, 1}

Init ==
    /\ hpc = [r \in Requests |-> "idle"]
    /\ future = [r \in Requests |-> "none"]
    /\ reply = [r \in Requests |-> "none"]
    /\ queue = [t \in Tasks |-> << >>]
    /\ batch = [t \in Tasks |-> << >>]
    /\ bpc = [t \in Tasks |-> "off"]
    /\ stop = [t \in Tasks |-> FALSE]
    /\ batcherFatal = [t \in Tasks |-> FALSE]
    /\ Sched!SchedInit
    /\ ready = FALSE /\ fatal = FALSE
    /\ mpc = "loading"
    /\ httpUp = TRUE
    /\ shutdownPending = FALSE
    /\ modelOpen = FALSE
    /\ exitCode = 0
    /\ timedOut = FALSE

(* The process runs: after main returns every other thread (all daemons) is *)
(* gone.                                                                    *)
Alive == mpc # "exited"

(* Both batcher threads sleep on an idle model, see ReadyBatchIsStarted:    *)
(* nobody will notify them any more.                                        *)
AllAsleep == ~active /\ \A t \in Tasks : phase[t] = "asleep"

-----------------------------------------------------------------------------
(* HTTP handlers.                                                           *)

(* The server accepts a connection and starts the handler's thread.         *)
Arrive(r) ==
    /\ Alive /\ httpUp
    /\ hpc[r] = "idle"
    /\ hpc' = [hpc EXCEPT ![r] = "read"]
    /\ UNCHANGED <<future, reply, batcherVars, schedVars, serverVars>>

Answer(r, status) ==
    /\ hpc' = [hpc EXCEPT ![r] = "done"]
    /\ reply' = [reply EXCEPT ![r] = status]
    /\ UNCHANGED <<future, batcherVars, schedVars, serverVars>>

(* do_POST up to the call of submit: the body, then ready and fatal_error   *)
(* read together under state.lock.                                          *)
ReadState(r) ==
    /\ Alive
    /\ hpc[r] = "read"
    /\ \/ "invalid" \in Faults /\ Answer(r, "400")
       \/ fatal /\ Answer(r, "500")
       \/ ~fatal /\ ~ready /\ Answer(r, "503")
       \/ /\ ~fatal /\ ready
          /\ hpc' = [hpc EXCEPT ![r] = "submit"]
          /\ UNCHANGED <<future, reply, batcherVars, schedVars, serverVars>>

(* submit's two checks, fatal_error then _stop.  Neither is ever reset, so  *)
(* reading them one after the other decides as reading both at the first.   *)
SubmitCheck(r) ==
    /\ Alive
    /\ hpc[r] = "submit"
    /\ \/ /\ batcherFatal[TaskOf[r]] \/ stop[TaskOf[r]]
          /\ Answer(r, "500")
       \/ /\ ~batcherFatal[TaskOf[r]] /\ ~stop[TaskOf[r]]
          /\ hpc' = [hpc EXCEPT ![r] = "put"]
          /\ UNCHANGED <<future, reply, batcherVars, schedVars, serverVars>>

(* submit's put: by now abort() or close() may have come between.           *)
Put(r) ==
    /\ Alive
    /\ hpc[r] = "put"
    /\ hpc' = [hpc EXCEPT ![r] = "wait"]
    /\ future' = [future EXCEPT ![r] = "pending"]
    /\ queue' = [queue EXCEPT ![TaskOf[r]] = Append(@, r)]
    /\ UNCHANGED <<reply, batch, bpc, stop, batcherFatal, schedVars, serverVars>>

(* future.result() returns or raises, and the handler replies.              *)
Result(r) ==
    /\ Alive
    /\ hpc[r] = "wait"
    /\ \/ future[r] = "ok" /\ Answer(r, "200")
       \/ future[r] = "failed" /\ Answer(r, "500")

Handler(r) == ReadState(r) \/ SubmitCheck(r) \/ Put(r) \/ Result(r)

-----------------------------------------------------------------------------
(* DynamicBatcher._run.                                                     *)

Goto(t, pc) == bpc' = [bpc EXCEPT ![t] = pc]

(* while not self._stop.is_set()                                            *)
LoopTest(t) ==
    /\ Alive
    /\ bpc[t] = "loop"
    /\ Goto(t, IF stop[t] THEN "ended" ELSE "get")
    /\ UNCHANGED <<handlerVars, queue, batch, stop, batcherFatal, schedVars, serverVars>>

(* The poll of 0.1 s ends with Empty: only when the queue is empty.         *)
GetEmpty(t) ==
    /\ Alive
    /\ bpc[t] = "get" /\ queue[t] = << >>
    /\ Goto(t, "loop")
    /\ UNCHANGED <<handlerVars, queue, batch, stop, batcherFatal, schedVars, serverVars>>

TakeNext(t) ==
    /\ queue[t] # << >>
    /\ batch' = [batch EXCEPT ![t] = Append(@, Head(queue[t]))]
    /\ queue' = [queue EXCEPT ![t] = Tail(@)]
    /\ UNCHANGED <<handlerVars, stop, batcherFatal, schedVars, serverVars>>

GetFirst(t) ==
    /\ Alive
    /\ bpc[t] = "get"
    /\ TakeNext(t)
    /\ Goto(t, "collect")

CollectMore(t) ==
    /\ Alive
    /\ bpc[t] = "collect"
    /\ Len(batch[t]) < MaxBatch
    /\ TakeNext(t)
    /\ UNCHANGED bpc

(* The batch is full or the window has closed: call the scheduler's run().  *)
EnterRun(t) ==
    /\ Alive
    /\ bpc[t] = "collect"
    /\ Sched!Enter(t)
    /\ Goto(t, "run")
    /\ UNCHANGED <<handlerVars, queue, batch, stop, batcherFatal, serverVars>>

WakeInRun(t) ==
    /\ Alive
    /\ bpc[t] = "run"
    /\ Sched!Wake(t)
    /\ UNCHANGED <<handlerVars, batcherVars, serverVars>>

(* The model returns, run() frees it, and the results pass validation.      *)
InferOk(t) ==
    /\ Alive
    /\ bpc[t] = "run"
    /\ Sched!Finish(t)
    /\ Goto(t, "resolve")
    /\ UNCHANGED <<handlerVars, queue, batch, stop, batcherFatal, serverVars>>

(* _fail_fatally answers the batch before it aborts the queue.              *)
MutantInferFailAnswersFirst(t) ==
    /\ Alive
    /\ "infer" \in Faults \/ ~modelOpen
    /\ bpc[t] = "run"
    /\ Sched!Finish(t)
    /\ Goto(t, "failBatch")
    /\ UNCHANGED <<handlerVars, queue, batch, stop, batcherFatal, serverVars>>

(* The model raises (always possible once it is closed), or its results are *)
(* of a wrong type, number or value.                                        *)
InferFail(t) ==
    /\ Alive
    /\ "infer" \in Faults \/ ~modelOpen
    /\ bpc[t] = "run"
    /\ Sched!Finish(t)
    /\ Goto(t, "abortOwn")
    /\ UNCHANGED <<handlerVars, queue, batch, stop, batcherFatal, serverVars>>

(* One set_result (or set_exception) of the loops over the batch.           *)
SettleFirst(t, outcome) ==
    /\ batch[t] # << >>
    /\ future' = [future EXCEPT ![Head(batch[t])] = outcome]
    /\ batch' = [batch EXCEPT ![t] = Tail(@)]
    /\ UNCHANGED <<hpc, reply, queue, bpc, stop, batcherFatal, schedVars, serverVars>>

EndOfBatch(t, pc) ==
    /\ batch[t] = << >>
    /\ Goto(t, pc)
    /\ UNCHANGED <<handlerVars, queue, batch, stop, batcherFatal, schedVars, serverVars>>

(* Only the first result is delivered.                                      *)
MutantResolveFirstOnly(t) ==
    /\ Alive
    /\ bpc[t] = "resolve"
    /\ future' = [future EXCEPT ![Head(batch[t])] = "ok"]
    /\ batch' = [batch EXCEPT ![t] = << >>]
    /\ Goto(t, "loop")
    /\ UNCHANGED <<hpc, reply, queue, stop, batcherFatal, schedVars, serverVars>>

Resolve(t) ==
    /\ Alive
    /\ bpc[t] = "resolve"
    /\ SettleFirst(t, "ok") \/ EndOfBatch(t, "loop")

-----------------------------------------------------------------------------
(* DynamicBatcher.abort, run by a failing batcher thread t three times: on  *)
(* itself in _fail_fatally, then on both batchers in fatal_shutdown.        *)

AbortTarget(t) == CASE bpc[t] \in {"abortOwn", "drainOwn"}   -> t
                    [] bpc[t] \in {"abortR4", "drainR4"}     -> "R4"
                    [] bpc[t] \in {"abortGate", "drainGate"} -> "reasoning_gate"

DrainPc(pc) == CASE pc = "abortOwn"  -> "drainOwn"
                 [] pc = "abortR4"   -> "drainR4"
                 [] pc = "abortGate" -> "drainGate"

AfterDrain(pc) == CASE pc = "drainOwn"  -> "failBatch"
                    [] pc = "drainR4"   -> "abortGate"
                    [] pc = "drainGate" -> "ended"

(* _fatal_error is kept if already set; _stop is set right after, and no    *)
(* reader can tell the two assignments apart (see SubmitCheck).             *)
AbortMark(t) ==
    /\ Alive
    /\ bpc[t] \in {"abortOwn", "abortR4", "abortGate"}
    /\ batcherFatal' = [batcherFatal EXCEPT ![AbortTarget(t)] = TRUE]
    /\ stop' = [stop EXCEPT ![AbortTarget(t)] = TRUE]
    /\ Goto(t, DrainPc(bpc[t]))
    /\ UNCHANGED <<handlerVars, queue, batch, schedVars, serverVars>>

(* The drained requests are discarded without an exception.                 *)
MutantDrainOneSilently(t) ==
    /\ Alive
    /\ bpc[t] \in {"drainOwn", "drainR4", "drainGate"}
    /\ queue[AbortTarget(t)] # << >>
    /\ queue' = [queue EXCEPT ![AbortTarget(t)] = Tail(@)]
    /\ UNCHANGED <<handlerVars, batch, bpc, stop, batcherFatal, schedVars, serverVars>>

(* get_nowait and set_exception.                                            *)
DrainOne(t) ==
    /\ Alive
    /\ bpc[t] \in {"drainOwn", "drainR4", "drainGate"}
    /\ queue[AbortTarget(t)] # << >>
    /\ future' = [future EXCEPT ![Head(queue[AbortTarget(t)])] = "failed"]
    /\ queue' = [queue EXCEPT ![AbortTarget(t)] = Tail(@)]
    /\ UNCHANGED <<hpc, reply, batch, bpc, stop, batcherFatal, schedVars, serverVars>>

(* The delayed shutdown thread is never started.                            *)
MutantDrainEndNoShutdown(t) ==
    /\ Alive
    /\ bpc[t] \in {"drainOwn", "drainR4", "drainGate"}
    /\ queue[AbortTarget(t)] = << >>
    /\ Goto(t, AfterDrain(bpc[t]))
    /\ UNCHANGED <<handlerVars, queue, batch, stop, batcherFatal, schedVars, serverVars>>

(* get_nowait raises Empty.  After the last abort fatal_shutdown starts the *)
(* delayed shutdown thread and the batcher thread ends.                     *)
DrainEnd(t) ==
    /\ Alive
    /\ bpc[t] \in {"drainOwn", "drainR4", "drainGate"}
    /\ queue[AbortTarget(t)] = << >>
    /\ Goto(t, AfterDrain(bpc[t]))
    /\ shutdownPending' = (shutdownPending \/ bpc[t] = "drainGate")
    /\ UNCHANGED <<handlerVars, queue, batch, stop, batcherFatal, schedVars,
                   ready, fatal, mpc, httpUp, modelOpen, exitCode, timedOut>>

FailBatch(t) ==
    /\ Alive
    /\ bpc[t] = "failBatch"
    /\ SettleFirst(t, "failed") \/ EndOfBatch(t, "publishFatal")

(* fatal_shutdown's critical section on state.lock.                         *)
PublishFatal(t) ==
    /\ Alive
    /\ bpc[t] = "publishFatal"
    /\ fatal' = TRUE
    /\ ready' = FALSE
    /\ Goto(t, "abortR4")
    /\ UNCHANGED <<handlerVars, queue, batch, stop, batcherFatal, schedVars,
                   mpc, httpUp, shutdownPending, modelOpen, exitCode, timedOut>>

Batcher(t) ==
    \/ LoopTest(t) \/ GetEmpty(t) \/ GetFirst(t) \/ CollectMore(t)
    \/ EnterRun(t) \/ WakeInRun(t) \/ InferOk(t) \/ InferFail(t) \/ Resolve(t)
    \/ AbortMark(t) \/ DrainOne(t) \/ DrainEnd(t) \/ FailBatch(t) \/ PublishFatal(t)

-----------------------------------------------------------------------------
(* run_server: the main thread and the shutdown threads.                    *)

LoadOk ==
    /\ mpc = "loading"
    /\ modelOpen' = TRUE
    /\ bpc' = [t \in Tasks |-> "loop"]
    /\ mpc' = "publish"
    /\ UNCHANGED <<handlerVars, queue, batch, stop, batcherFatal, schedVars,
                   ready, fatal, httpUp, shutdownPending, exitCode, timedOut>>

(* The except branch: the error is published and the HTTP server stopped.   *)
LoadFail ==
    /\ "load" \in Faults
    /\ mpc = "loading"
    /\ fatal' = TRUE
    /\ ready' = FALSE
    /\ httpUp' = FALSE
    /\ mpc' = "closeModel"
    /\ UNCHANGED <<handlerVars, batcherVars, schedVars, shutdownPending, modelOpen, exitCode, timedOut>>

Publish ==
    /\ mpc = "publish"
    /\ ready' = TRUE
    /\ mpc' = "join"
    /\ UNCHANGED <<handlerVars, batcherVars, schedVars,
                   fatal, httpUp, shutdownPending, modelOpen, exitCode, timedOut>>

ServerThreadEnded ==
    /\ mpc = "join" /\ ~httpUp
    /\ mpc' = "closeR4"
    /\ UNCHANGED <<handlerVars, batcherVars, schedVars,
                   ready, fatal, httpUp, shutdownPending, modelOpen, exitCode, timedOut>>

(* DynamicBatcher.close: set _stop, join the thread for 5 s at most.        *)
CloseSetStop(t, pc, next) ==
    /\ mpc = pc
    /\ stop' = [stop EXCEPT ![t] = TRUE]
    /\ mpc' = next
    /\ UNCHANGED <<handlerVars, queue, batch, bpc, batcherFatal, schedVars,
                   ready, fatal, httpUp, shutdownPending, modelOpen, exitCode, timedOut>>

(* close() without its join.                                                *)
MutantCloseWithoutJoin(t, pc, next) ==
    /\ mpc = pc
    /\ mpc' = next
    /\ UNCHANGED <<handlerVars, batcherVars, schedVars,
                   ready, fatal, httpUp, shutdownPending, modelOpen, exitCode, timedOut>>

CloseJoin(t, pc, next) ==
    /\ mpc = pc
    /\ bpc[t] = "ended" \/ "slowjoin" \in Faults \/ AllAsleep
    /\ timedOut' = (timedOut \/ bpc[t] # "ended")
    /\ mpc' = next
    /\ UNCHANGED <<handlerVars, batcherVars, schedVars,
                   ready, fatal, httpUp, shutdownPending, modelOpen, exitCode, timedOut>>

CloseModel ==
    /\ mpc = "closeModel"
    /\ modelOpen' = FALSE
    /\ mpc' = "exit"
    /\ UNCHANGED <<handlerVars, batcherVars, schedVars,
                   ready, fatal, httpUp, shutdownPending, exitCode, timedOut>>

(* run_server returns and the process ends: the connection of every handler *)
(* still at work is reset.                                                  *)
Exit ==
    /\ mpc = "exit"
    /\ mpc' = "exited"
    /\ exitCode' = IF fatal THEN 1 ELSE 0
    /\ LET cut == {r \in Requests : hpc[r] \notin {"idle", "done"}} IN
       /\ reply' = [r \in Requests |-> IF r \in cut THEN "reset" ELSE reply[r]]
       /\ hpc' = [r \in Requests |-> IF r \in cut THEN "done" ELSE hpc[r]]
    /\ UNCHANGED <<future, batcherVars, schedVars,
                   ready, fatal, httpUp, shutdownPending, modelOpen, timedOut>>

Main ==
    \/ LoadOk \/ LoadFail \/ Publish \/ ServerThreadEnded
    \/ CloseSetStop("R4", "closeR4", "joinR4")
    \/ CloseJoin("R4", "joinR4", "closeGate")
    \/ CloseSetStop("reasoning_gate", "closeGate", "joinGate")
    \/ CloseJoin("reasoning_gate", "joinGate", "closeModel")
    \/ CloseModel \/ Exit

(* handle_signal starts a thread that calls shutdown().                     *)
Signal ==
    /\ Alive
    /\ "signal" \in Faults
    /\ shutdownPending' = TRUE
    /\ UNCHANGED <<handlerVars, batcherVars, schedVars,
                   ready, fatal, mpc, httpUp, modelOpen, exitCode, timedOut>>

(* shutdown(): stop serve_forever.  The Event shutdown_started makes every  *)
(* call but the first return at once, which changes nothing here either.    *)
Shutdown ==
    /\ Alive
    /\ shutdownPending
    /\ shutdownPending' = FALSE
    /\ httpUp' = FALSE
    /\ UNCHANGED <<handlerVars, batcherVars, schedVars,
                   ready, fatal, mpc, modelOpen, exitCode, timedOut>>

(* The process has ended; anything else that stops is a deadlock.           *)
Terminated == ~Alive /\ UNCHANGED vars

Next ==
    \/ \E r \in Requests : Arrive(r) \/ Handler(r)
    \/ \E t \in Tasks : Batcher(t)
    \/ Main
    \/ Signal
    \/ Shutdown
    \/ Terminated

(* Every thread that can take a step eventually takes one: they share       *)
(* nothing but locks held for a few assignments, and timed waits end.       *)
(* Nothing is assumed of the clients and of signals.                        *)
Fairness ==
    /\ \A r \in Requests : WF_vars(Handler(r))
    /\ \A t \in Tasks : WF_vars(Batcher(t))
    /\ WF_vars(Main)
    /\ WF_vars(Shutdown)

Spec == Init /\ [][Next]_vars

FairSpec == Spec /\ Fairness

-----------------------------------------------------------------------------
(* Safety.                                                                  *)

(* A batcher thread is inside run() exactly from handing a batch to the     *)
(* scheduler until it has freed the model, and has an entry in _waiting     *)
(* exactly while it waits there; so the scheduler never sees a second batch *)
(* of one task ("already has a waiting batch" is unreachable).              *)
RunMatchesScheduler ==
    /\ \A t \in Tasks : bpc[t] = "run" <=> phase[t] # "out"
    /\ Sched!EntriesMatchWaiters

(* Two batcher threads share the model: it serves one batch at a time, and  *)
(* _active says exactly whether it does, also when batches raise.           *)
ModelExclusive == Sched!ModelExclusive

(* A batcher asleep on an idle model sleeps because of the other one, which *)
(* is registered too: with one task in use no wakeup is ever lost.  With    *)
(* both it can be, see ReadyBatchIsStarted.                                 *)
IdleSleeperHasRival == Sched!IdleSleeperHasRival

Occurrences(r, s) == Cardinality({i \in 1 .. Len(s) : s[i] = r})

(* No accepted request is lost, doubled or answered twice, whatever aborts, *)
(* closes and inference failures interleave: a request whose future is      *)
(* pending is once, in the queue or the batch of its own task, and nothing  *)
(* else is in them.  So set_result never meets a future that is done, which *)
(* would raise InvalidStateError and kill the batcher thread silently.      *)
PendingExactlyOnce ==
    \A r \in Requests, t \in Tasks :
        Occurrences(r, queue[t]) + Occurrences(r, batch[t]) =
            IF t = TaskOf[r] /\ future[r] = "pending" THEN 1 ELSE 0

(* 200 is answered only with a score, 500 after submission only when a      *)
(* batcher has failed, and a handler that is gone leaves nobody waiting.    *)
RepliesFollowFutures ==
    \A r \in Requests :
        /\ reply[r] = "200" => future[r] = "ok"
        /\ future[r] = "failed" => \E t \in Tasks : batcherFatal[t]
        /\ future[r] = "pending" => hpc[r] = "wait" \/ ~Alive

(* The process ends with status 1 exactly when the load or a batch failed,  *)
(* and not after a signal alone -- unless a join of close() timed out.      *)
ExitCodeTellsFailure ==
    ~Alive /\ ~timedOut =>
        (exitCode = 1 <=> fatal \/ \E t \in Tasks : batcherFatal[t])

(* model.close() is not called under a running inference, unless a join of  *)
(* close() timed out.                                                       *)
ModelNotClosedInUse ==
    mpc \in {"exit", "exited"} /\ ~timedOut =>
        \A t \in Tasks : bpc[t] \in {"off", "ended"} /\ phase[t] = "out"

(* A fatal error is permanent: neither the server nor a batcher recovers    *)
(* from it, and the service never turns ready again.                        *)
FatalIsPermanent ==
    [][/\ fatal => fatal' /\ ~ready'
       /\ \A t \in Tasks : batcherFatal[t] => batcherFatal[t]' /\ stop[t]']_vars

(* 503 means "still loading": no request gets it once the service was ready.*)
NotReadyOnlyWhileLoading ==
    [][\A r \in Requests : reply'[r] = "503" /\ reply[r] # "503"
          => mpc \in {"loading", "publish"}]_vars

(* Module docstring: a failure is passed to the failed batch and to every   *)
(* request in the queues.  When both batcher threads have ended after a     *)
(* fatal error nobody is left to do it.                                     *)
FailureReachesEveryRequest ==
    fatal /\ (\A t \in Tasks : bpc[t] = "ended")
        => \A r \in Requests : future[r] # "pending"

-----------------------------------------------------------------------------
(* Liveness, under FairSpec.                                                *)

(* Every request the server has accepted is answered or, if the process     *)
(* ends, reset -- whatever fails meanwhile, and unless both batchers fall   *)
(* asleep, after which nothing is answered any more.                        *)
RequestsAnswered ==
    \A r \in Requests : hpc[r] = "read" ~> hpc[r] = "done" \/ AllAsleep

(* A failure that was published ends the process with status 1, and a       *)
(* shutdown ends it, although threads block on queues, on the condition of  *)
(* the scheduler and in serve_forever -- unless both batchers have fallen   *)
(* asleep, and then too: close() joins with a timeout.                      *)
ProcessEnds ==
    /\ fatal ~> ~Alive /\ exitCode = 1
    /\ ~httpUp ~> ~Alive

(* Module docstring: when the model is idle it serves a ready batch.        *)
ReadyBatchIsStarted ==
    \A t \in Tasks : bpc[t] = "run" ~> bpc[t] # "run"

=============================================================================
