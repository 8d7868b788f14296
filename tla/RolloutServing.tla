--------------------------- MODULE RolloutServing ---------------------------
(***************************************************************************)
(* How generation survives the weights being changed under it (verl): the  *)
(* clients of LLMServerClient / FullyAsyncLLMServerClient, the             *)
(* GlobalRequestLoadBalancer that routes them, the vLLM servers, and the   *)
(* trainer that pauses, updates, sleeps, wakes, adds and removes servers   *)
(* through its CheckpointEngineManagers: as PPOTrainer separate_async does *)
(* ("separate"), as the DynamicResourceController does ("dynamic"), or as  *)
(* _trainer_side_validate does ("validate").                               *)
(*                                                                         *)
(* A client's calls to the balancer and to a server, and the trainer's     *)
(* calls to the servers of a group, arrive in any order.  Tokens are       *)
(* counted, and remembered by the version of the weights that made them.   *)
(* The eviction of sticky entries, multi-turn conversations and failures   *)
(* of servers are left out.                                                *)
(***************************************************************************)
EXTENDS Integers, Sequences, FiniteSets

CONSTANTS
    Requests,  \* generate calls of the agent loops
    Budget,    \* tokens a call may generate, response_length
    Configs    \* deployments, see ConfigType

ConfigType ==
    [standalone: Nat,      \* servers 1 .. standalone are of the rollout only
     hybrid: Nat,          \* the others share their GPUs with the trainer
     control: {"separate", "dynamic", "validate"},
     rebalance: BOOLEAN,   \* dynamic_schedule_enable_rebalance
     partial: BOOLEAN,     \* async_training.partial_rollout
     steps: Nat \ {0}]     \* steps of the trainer

ASSUME ConfigAssumption ==
    /\ IsFiniteSet(Requests)
    /\ Budget \in Nat \ {0}
    /\ Configs \subseteq ConfigType
    /\ \A c \in Configs : /\ c.standalone + c.hybrid > 0
                          /\ c.control # "dynamic" => c.standalone > 0

VARIABLES
    conf,
    inflight,  \* _inflight_requests, a function on the servers registered
    sticky,    \* _request_id_to_server, a function on the requests it knows
    release,   \* the server whose release a client has sent, not yet handled
    paused, awake, version,  \* the servers: paused, weights in memory, global_steps
    call,      \* the generate call of each request, see CallType
    script,    \* calls the trainer is making, each to a set of servers
    step,      \* steps begun, global_steps of the weights it pushes
    active     \* hybrid servers are in rollout mode

balancerVars == <<inflight, sticky>>
serverVars   == <<paused, awake, version>>
trainerVars  == <<script, step, active>>
vars == <<conf, balancerVars, release, serverVars, call, trainerVars>>

Standalone == 1 .. conf.standalone
Hybrid     == conf.standalone + 1 .. conf.standalone + conf.hybrid
Servers    == Standalone \cup Hybrid
OnlyHybrid == conf.standalone = 0

LastStep == conf.steps
Versions == 0 .. LastStep
NoServer == 0

(* limit is max_tokens of the attempt, made what it has generated, merged   *)
(* what earlier attempts have; by are the versions that generated tokens;   *)
(* lo and hi are min_global_steps and max_global_steps, LastStep + 1 if     *)
(* unknown.                                                                 *)
CallType ==
    [stage: {"acquire", "sent", "running", "back", "done"},
     at: Servers \cup {NoServer}, aborted: BOOLEAN,
     limit: 0 .. Budget, made: 0 .. Budget, merged: 0 .. Budget,
     by: SUBSET Versions, lo: 0 .. LastStep + 1, hi: 0 .. LastStep + 1]

NewCall == [stage |-> "acquire", at |-> NoServer, aborted |-> FALSE,
            limit |-> Budget, made |-> 0, merged |-> 0,
            by |-> {}, lo |-> LastStep + 1, hi |-> LastStep + 1]

Ops == {"add", "remove", "clear", "abort", "resume", "update", "sleep"}

TypeOK ==
    /\ conf \in Configs
    /\ DOMAIN inflight \subseteq Servers
    /\ \A s \in DOMAIN inflight : inflight[s] \in 0 .. Cardinality(Requests)
    /\ DOMAIN sticky \subseteq Requests
    /\ \A r \in DOMAIN sticky : sticky[r] \in Servers
    /\ release \in [Requests -> Servers \cup {NoServer}]
    /\ paused \in [Servers -> BOOLEAN] /\ awake \in [Servers -> BOOLEAN]
    /\ version \in [Servers -> Versions]
    /\ call \in [Requests -> CallType]
    /\ \A i \in DOMAIN script : script[i].op \in Ops /\ script[i].on \subseteq Servers
    /\ step \in Versions /\ active \in BOOLEAN

(* Weights of step 0 have been pushed.  In separate_async the hybrid servers*)
(* start in rollout mode; otherwise they sleep unless the policy activated  *)
(* them.                                                                    *)
Init ==
    /\ conf \in Configs
    /\ active \in IF conf.control = "separate" \/ OnlyHybrid THEN {TRUE}
                  ELSE IF conf.control = "dynamic" /\ conf.hybrid > 0 THEN BOOLEAN
                  ELSE {FALSE}
    /\ inflight = [s \in IF active THEN Servers ELSE Standalone |-> 0]
    /\ sticky = [r \in {} |-> NoServer]
    /\ release = [r \in Requests |-> NoServer]
    /\ paused = [s \in Servers |-> FALSE]
    /\ awake = [s \in Servers |-> active \/ s \in Standalone]
    /\ version = [s \in Servers |-> 0]
    /\ call = [r \in Requests |-> NewCall]
    /\ script = <<>> /\ step = 0

-----------------------------------------------------------------------------
(* The clients and the balancer.                                            *)

LeastLoaded == {s \in DOMAIN inflight : \A t \in DOMAIN inflight : inflight[s] <= inflight[t]}

(* acquire_server: the server the request had, if it is still registered,   *)
(* or one of the least loaded: the first, or one given by the hash of the   *)
(* request.                                                                 *)
Choices(r) ==
    IF r \in DOMAIN sticky /\ sticky[r] \in DOMAIN inflight THEN {sticky[r]} ELSE LeastLoaded

(* Calls of one client to the balancer are handled in order, so its release *)
(* comes first.  While no server is registered the client of a hybrid-only  *)
(* deployment tries again every second; elsewhere there always is one.      *)
Acquire(r) ==
    /\ call[r].stage = "acquire" /\ release[r] = NoServer
    /\ \E s \in Choices(r) :
         /\ inflight' = [inflight EXCEPT ![s] = @ + 1]
         /\ sticky' = [q \in DOMAIN sticky \cup {r} |-> IF q = r THEN s ELSE sticky[q]]
         /\ call' = [call EXCEPT ![r].stage = "sent", ![r].at = s]
    /\ UNCHANGED <<conf, release, serverVars, trainerVars>>

(* The server gets the call; a paused one keeps it waiting.                 *)
Arrive(r) ==
    /\ call[r].stage = "sent" /\ ~paused[call[r].at]
    /\ call' = [call EXCEPT ![r].stage = "running"]
    /\ UNCHANGED <<conf, balancerVars, release, serverVars, trainerVars>>

Emit(r) ==
    /\ call[r].stage = "running" /\ call[r].made < call[r].limit
    /\ call' = [call EXCEPT ![r].made = @ + 1, ![r].by = @ \cup {version[call[r].at]}]
    /\ UNCHANGED <<conf, balancerVars, release, serverVars, trainerVars>>

(* The answer of a server carries the global_steps it then has.             *)
Answer(c, aborted) ==
    [c EXCEPT !.stage = "back", !.aborted = aborted, !.hi = version[c.at],
              !.lo = IF @ > LastStep THEN version[c.at] ELSE @]

(* At the limit, or earlier with a stop token.                              *)
Complete(r) ==
    /\ call[r].stage = "running"
    /\ call' = [call EXCEPT ![r] = Answer(@, FALSE)]
    /\ UNCHANGED <<conf, balancerVars, release, serverVars, trainerVars>>

(* Mutant...: plausible defects of the definition they precede, used by no  *)
(* specification.                                                           *)

(* The limit of the next attempt is not reduced by what there is.           *)
MutantReceive(r) ==
    /\ call[r].stage = "back"
    /\ release' = [release EXCEPT ![r] = call[r].at]
    /\ LET c == call[r]
           total == c.merged + c.made
           over == total >= Budget \/ ~c.aborted \/ ~conf.partial
       IN  call' = [call EXCEPT ![r] =
                      [c EXCEPT !.stage = IF over THEN "done" ELSE "acquire",
                                !.at = NoServer, !.aborted = FALSE,
                                !.merged = total, !.made = 0]]
    /\ UNCHANGED <<conf, balancerVars, serverVars, trainerVars>>

(* An aborted attempt is not released.                                      *)
MutantReceiveUnreleased(r) ==
    /\ call[r].stage = "back"
    /\ release' = IF call[r].aborted THEN release ELSE [release EXCEPT ![r] = call[r].at]
    /\ LET c == call[r]
           total == c.merged + c.made
           over == total >= Budget \/ ~c.aborted \/ ~conf.partial
       IN  call' = [call EXCEPT ![r] =
                      [c EXCEPT !.stage = IF over THEN "done" ELSE "acquire",
                                !.at = NoServer, !.aborted = FALSE,
                                !.limit = Budget - total, !.merged = total, !.made = 0]]
    /\ UNCHANGED <<conf, balancerVars, serverVars, trainerVars>>

(* The client merges the answer, sends the release without waiting for it,  *)
(* and tries again with the rest of the budget if the answer was cut off.   *)
Receive(r) ==
    /\ call[r].stage = "back"
    /\ release' = [release EXCEPT ![r] = call[r].at]
    /\ LET c == call[r]
           total == c.merged + c.made
           over == total >= Budget \/ ~c.aborted \/ ~conf.partial
       IN  call' = [call EXCEPT ![r] =
                      [c EXCEPT !.stage = IF over THEN "done" ELSE "acquire",
                                !.at = NoServer, !.aborted = FALSE,
                                !.limit = Budget - total, !.merged = total, !.made = 0]]
    /\ UNCHANGED <<conf, balancerVars, serverVars, trainerVars>>

(* A count of 0 is counted down.                                            *)
MutantRelease(r) ==
    /\ release[r] # NoServer
    /\ release' = [release EXCEPT ![r] = NoServer]
    /\ inflight' = [s \in DOMAIN inflight |->
                       IF s = release[r] THEN inflight[s] - 1 ELSE inflight[s]]
    /\ UNCHANGED <<conf, sticky, serverVars, call, trainerVars>>

(* release_server                                                           *)
Release(r) ==
    /\ release[r] # NoServer
    /\ release' = [release EXCEPT ![r] = NoServer]
    /\ LET s == release[r]
       IN  inflight' = IF s \in DOMAIN inflight /\ inflight[s] > 0
                       THEN [inflight EXCEPT ![s] = @ - 1] ELSE inflight
    /\ UNCHANGED <<conf, sticky, serverVars, call, trainerVars>>

Client(r) == Acquire(r) \/ Arrive(r) \/ Emit(r) \/ Complete(r) \/ Receive(r) \/ Release(r)

-----------------------------------------------------------------------------
(* What the trainer makes the servers do.                                   *)

Calls(op, on) == [op |-> op, on |-> on]

(* Mutant: the weights are updated under running calls.                     *)
MutantPush == <<Calls("update", Standalone), Calls("resume", Standalone)>>

(* Mutant: the servers stay paused after the update.                        *)
MutantPushUnresumed == <<Calls("abort", Standalone), Calls("update", Standalone)>>

(* CheckpointEngineManager.update_weights of the standalone servers.        *)
Push == <<Calls("abort", Standalone), Calls("update", Standalone), Calls("resume", Standalone)>>

(* Mutant: the servers are aborted while the balancer still routes to them. *)
MutantDeactivate ==
    <<Calls("abort", Hybrid), Calls("remove", Hybrid), Calls("sleep", Hybrid)>>

(* switch_to_trainer, deactivate_hybrid_replicas                            *)
Deactivate ==
    <<Calls("remove", Hybrid), Calls("abort", Hybrid), Calls("sleep", Hybrid)>>

(* switch_to_rollout: the naive update of servers that sleep.               *)
SwitchToRollout ==
    <<Calls("update", Hybrid), Calls("resume", Hybrid), Calls("add", Hybrid)>>

(* rebalance_requests; the wait for the releases has a timeout.             *)
Rebalance ==
    <<Calls("clear", Servers), Calls("abort", Servers), Calls("resume", Servers)>>

(* sync_hybrid_weights, activate_hybrid_replicas, request_rebalance         *)
Activate ==
    <<Calls("abort", Hybrid), Calls("update", Hybrid), Calls("resume", Hybrid)>>
    \o <<Calls("add", Hybrid), Calls("resume", Hybrid)>>
    \o IF conf.rebalance THEN Rebalance ELSE <<>>

(* _trainer_side_validate, its phases 1 and 3                               *)
Validate ==
    <<Calls("update", Hybrid), Calls("abort", Standalone), Calls("abort", Hybrid),
      Calls("add", Hybrid), Calls("resume", Standalone), Calls("resume", Hybrid),
      Calls("abort", Standalone), Calls("abort", Hybrid), Calls("remove", Hybrid),
      Calls("sleep", Hybrid), Calls("resume", Standalone), Calls("resume", Hybrid)>>

(* One step: the hybrid servers go back to training, the weights are pushed,*)
(* and the hybrid servers are taken into the rollout or not.                *)
Cycle(activate) ==
    (IF active THEN Deactivate ELSE <<>>)
      \o Push
      \o (IF ~activate THEN <<>>
          ELSE IF conf.control = "separate" THEN SwitchToRollout
          ELSE IF conf.control = "dynamic" THEN Activate
          ELSE Validate)

(* Whether to activate is the policy's choice, or that of test_freq.        *)
Step ==
    /\ script = <<>> /\ step < LastStep
    /\ step' = step + 1
    /\ \E activate \in IF OnlyHybrid THEN {TRUE} ELSE BOOLEAN :
         /\ script' = Cycle(activate)
         /\ active' = (activate /\ conf.control # "validate")
    /\ UNCHANGED <<conf, balancerVars, release, serverVars, call>>

(* Calls to the balancer act on all servers at once.                        *)
Route ==
    /\ script # <<>>
    /\ LET c == Head(script)
       IN  \/ /\ c.op = "add"
              /\ inflight' = [s \in DOMAIN inflight \cup c.on |->
                                IF s \in c.on THEN 0 ELSE inflight[s]]
              /\ UNCHANGED sticky
           \/ /\ c.op = "remove"
              /\ inflight' = [s \in DOMAIN inflight \ c.on |-> inflight[s]]
              /\ UNCHANGED sticky
           \/ /\ c.op = "clear"
              /\ sticky' = [r \in {} |-> NoServer]
              /\ UNCHANGED inflight
    /\ script' = Tail(script)
    /\ UNCHANGED <<conf, release, serverVars, call, step, active>>

(* Mutant: only the calls that have generated something are aborted.        *)
MutantAborted(s) ==
    [r \in Requests |-> IF call[r].stage = "running" /\ call[r].at = s /\ call[r].made > 0
                        THEN Answer(call[r], TRUE) ELSE call[r]]

(* pause_generation cuts off what runs.                                     *)
Aborted(s) ==
    [r \in Requests |-> IF call[r].stage = "running" /\ call[r].at = s
                        THEN Answer(call[r], TRUE) ELSE call[r]]

(* The other calls reach the servers of their group one by one; the next    *)
(* call is made when all have answered.                                     *)
Serve(s) ==
    /\ script # <<>> /\ s \in Head(script).on
    /\ LET op == Head(script).op
       IN  \/ /\ op = "abort"
              /\ paused' = [paused EXCEPT ![s] = TRUE] /\ call' = Aborted(s)
              /\ UNCHANGED <<awake, version>>
           \/ /\ op = "resume"
              /\ paused' = [paused EXCEPT ![s] = FALSE]
              /\ UNCHANGED <<awake, version, call>>
           \/ /\ op = "update"
              /\ awake' = [awake EXCEPT ![s] = TRUE] /\ version' = [version EXCEPT ![s] = step]
              /\ UNCHANGED <<paused, call>>
           \/ /\ op = "sleep"
              /\ awake' = [awake EXCEPT ![s] = FALSE]
              /\ UNCHANGED <<paused, version, call>>
    /\ script' = IF Head(script).on = {s} THEN Tail(script)
                 ELSE <<[Head(script) EXCEPT !.on = @ \ {s}]>> \o Tail(script)
    /\ UNCHANGED <<conf, balancerVars, release, step, active>>

(* A call to a group without servers has no answers to wait for.            *)
Skip ==
    /\ script # <<>> /\ Head(script).on = {}
    /\ script' = Tail(script)
    /\ UNCHANGED <<conf, balancerVars, release, serverVars, call, step, active>>

Trainer == Step \/ Route \/ Skip \/ \E s \in Servers : Serve(s)

(* A call that waits at a server that will not be resumed for it.           *)
Stranded(r) ==
    /\ call[r].stage = "sent" /\ paused[call[r].at]
    /\ call[r].at \notin DOMAIN inflight

Stopped ==
    /\ script = <<>> /\ step = LastStep
    /\ \A r \in Requests : call[r].stage = "done" \/ Stranded(r)
    /\ UNCHANGED vars

Next ==
    \/ \E r \in Requests : Client(r)
    \/ Trainer
    \/ Stopped

Spec == Init /\ [][Next]_vars

(* Calls arrive, generation goes on, the trainer makes the calls it began.  *)
Fairness ==
    /\ \A r \in Requests : WF_vars(Client(r))
    /\ WF_vars(Trainer)

FairSpec == Spec /\ Fairness

-----------------------------------------------------------------------------
(* Properties.                                                              *)

Load(s) == Cardinality({r \in Requests : call[r].at = s})
             + Cardinality({r \in Requests : release[r] = s})

(* The balancer never counts a call too many, whatever is removed, added    *)
(* again and released late, so that no server is avoided for a load it does *)
(* not have; the count of a standalone server is exact.                     *)
CountsAreSound ==
    \A s \in DOMAIN inflight :
        /\ inflight[s] <= Load(s)
        /\ s \in Standalone => inflight[s] = Load(s)

(* A server the balancer routes to holds its weights, and if it is paused   *)
(* the trainer is on its way to resume it: the retry of a call that was cut *)
(* off is not sent to a server that is being taken away.                    *)
RoutableServersServe ==
    \A s \in DOMAIN inflight :
        /\ awake[s]
        /\ paused[s] => \E i \in DOMAIN script : script[i].op = "resume" /\ s \in script[i].on

(* The weights of a server are neither replaced nor released while a call   *)
(* generates with them, and no call generates without.                      *)
WeightsStay ==
    [][\A r \in Requests :
         call[r].stage = "running" =>
             LET s == call[r].at
             IN  awake[s] /\ awake'[s] /\ version'[s] = version[s]]_vars

(* min_global_steps and max_global_steps of an answer enclose the versions  *)
(* of the weights that made its tokens, over all attempts and servers.      *)
VersionSpan ==
    \A r \in Requests :
        call[r].stage = "done" =>
            \A v \in call[r].by : call[r].lo <= v /\ v <= call[r].hi

(* However often a call is cut off and resumed, its answer stays within the *)
(* budget of one answer.                                                    *)
BudgetRespected ==
    \A r \in Requests : call[r].merged + call[r].made <= Budget

(* In the end every call is answered, except one that was routed to a       *)
(* hybrid server and reached it only when it was paused and removed.        *)
AnsweredOrStranded ==
    \A r \in Requests : <>[](call[r].stage = "done") \/ <>[]Stranded(r)

(* An interruption of the rollout is invisible to the caller.               *)
EveryCallAnswered == \A r \in Requests : <>(call[r].stage = "done")

=============================================================================
