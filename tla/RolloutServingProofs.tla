------------------------ MODULE RolloutServingProofs ------------------------
(***************************************************************************)
(* Safety of generation under changing weights, for any number of servers, *)
(* calls and steps, every deployment and every order of the messages.      *)
(***************************************************************************)
EXTENDS RolloutServing, TLAPS, FiniteSetTheorems, SequenceTheorems

(* What the trainer may ask: only hybrid servers enter or leave the         *)
(* balancer.                                                                *)
TrainerCalls ==
    {c \in [op: Ops, on: SUBSET Servers] : c.op \in {"add", "remove"} => c.on \subseteq Hybrid}

TypeInv ==
    /\ conf \in Configs
    /\ DOMAIN inflight \subseteq Servers /\ \A s \in DOMAIN inflight : inflight[s] \in Nat
    /\ DOMAIN sticky \subseteq Requests /\ \A r \in DOMAIN sticky : sticky[r] \in Servers
    /\ release \in [Requests -> Servers \cup {NoServer}]
    /\ paused \in [Servers -> BOOLEAN] /\ awake \in [Servers -> BOOLEAN]
    /\ version \in [Servers -> Versions]
    /\ call \in [Requests -> CallType]
    /\ script \in Seq(TrainerCalls)
    /\ step \in Versions /\ active \in BOOLEAN

(* A call is at a server from its acquire to its answer, and its release is *)
(* on its way only between two attempts; an attempt has what earlier ones   *)
(* left of the budget.                                                      *)
StageInv ==
    \A r \in Requests :
        /\ call[r].at = NoServer <=> call[r].stage \in {"acquire", "done"}
        /\ release[r] # NoServer => call[r].at = NoServer
        /\ call[r].merged + call[r].limit = Budget
        /\ call[r].made <= call[r].limit

BaseInv == TypeInv /\ StageInv

-----------------------------------------------------------------------------
(* The deployment.                                                          *)
LEMMA ConfFacts ==
    ASSUME conf \in Configs
    PROVE  /\ LastStep \in Nat /\ LastStep > 0
           /\ Servers = Standalone \cup Hybrid /\ Standalone \cap Hybrid = {}
           /\ Servers \subseteq Nat /\ NoServer \notin Servers
           /\ conf.control \in {"separate", "dynamic", "validate"}
           /\ OnlyHybrid => Standalone = {} /\ conf.control = "dynamic"
           /\ IsFiniteSet(Requests) /\ Budget \in Nat /\ Budget > 0
<1>1. /\ conf \in ConfigType
      /\ conf.control # "dynamic" => conf.standalone > 0
  BY ConfigAssumption
<1>2. /\ conf.standalone \in Nat /\ conf.hybrid \in Nat /\ conf.steps \in Nat \ {0}
      /\ conf.control \in {"separate", "dynamic", "validate"}
  BY <1>1 DEF ConfigType
<1>3. LastStep \in Nat /\ LastStep > 0
  BY <1>2 DEF LastStep
<1>4. /\ Servers = Standalone \cup Hybrid /\ Standalone \cap Hybrid = {}
      /\ Servers \subseteq Nat /\ NoServer \notin Servers
  BY <1>2 DEF Servers, Standalone, Hybrid, NoServer
<1>5. OnlyHybrid => Standalone = {} /\ conf.control = "dynamic"
  BY <1>1, <1>2 DEF OnlyHybrid, Standalone
<1> QED BY <1>2, <1>3, <1>4, <1>5, ConfigAssumption

LEMMA ConfKept ==
    ASSUME [Next]_vars
    PROVE  /\ conf' = conf /\ Standalone' = Standalone /\ Hybrid' = Hybrid
           /\ Servers' = Servers /\ LastStep' = LastStep /\ Versions' = Versions
           /\ CallType' = CallType /\ TrainerCalls' = TrainerCalls
<1>1. conf' = conf
  BY DEF Next, vars, Client, Acquire, Arrive, Emit, Complete, Receive, Release, Trainer, Step,
     Route, Skip, Serve, Stopped
<1>2. /\ Standalone' = Standalone /\ Hybrid' = Hybrid /\ LastStep' = LastStep
  BY <1>1 DEF Standalone, Hybrid, LastStep
<1>3. Servers' = Servers /\ Versions' = Versions
  BY <1>2 DEF Servers, Versions
<1> QED BY <1>1, <1>2, <1>3 DEF CallType, TrainerCalls

(* What a server answers.                                                   *)
LEMMA AnswerIs ==
    ASSUME NEW c \in CallType, NEW a \in BOOLEAN, version[c.at] \in 0 .. LastStep + 1
    PROVE  /\ Answer(c, a) \in CallType
           /\ Answer(c, a).stage = "back" /\ Answer(c, a).at = c.at
           /\ Answer(c, a).limit = c.limit /\ Answer(c, a).made = c.made
           /\ Answer(c, a).merged = c.merged /\ Answer(c, a).by = c.by
           /\ Answer(c, a).hi = version[c.at]
           /\ Answer(c, a).lo = IF c.lo > LastStep THEN version[c.at] ELSE c.lo
<1>1. PICK v \in 0 .. LastStep + 1 : v = version[c.at]
  OBVIOUS
<1>2. PICK l \in 0 .. LastStep + 1 : l = IF c.lo > LastStep THEN v ELSE c.lo
  BY DEF CallType
<1>3. Answer(c, a) = [c EXCEPT !.stage = "back", !.aborted = a, !.hi = v, !.lo = l]
  BY <1>1, <1>2 DEF Answer
<1>4. [c EXCEPT !.stage = "back", !.aborted = a, !.hi = v, !.lo = l] \in CallType
  BY DEF CallType
<1> QED BY <1>1, <1>2, <1>3, <1>4 DEF CallType

LEMMA AnswerFacts ==
    ASSUME BaseInv, NEW r \in Requests, call[r].stage = "running", NEW a \in BOOLEAN
    PROVE  LET c == Answer(call[r], a)
           IN  /\ c \in CallType
               /\ c.stage = "back" /\ c.at = call[r].at /\ c.at \in Servers
               /\ c.limit = call[r].limit /\ c.made = call[r].made
               /\ c.merged = call[r].merged /\ c.by = call[r].by
               /\ c.hi = version[c.at]
               /\ c.lo = IF call[r].lo > LastStep THEN version[c.at] ELSE call[r].lo
               /\ release[r] = NoServer
<1>1. call[r] \in CallType /\ call[r].at \in Servers /\ release[r] = NoServer
  BY DEF BaseInv, TypeInv, StageInv, CallType
<1>2. version[call[r].at] \in 0 .. LastStep /\ LastStep \in Nat
  BY <1>1, ConfFacts DEF BaseInv, TypeInv, Versions
<1>3. version[call[r].at] \in 0 .. LastStep + 1
  BY <1>2
<1> QED BY <1>1, <1>3, AnswerIs

(* The calls of a step, whatever it consists of.                            *)
LEMMA CallsType ==
    /\ \A op \in Ops : Calls(op, Hybrid) \in TrainerCalls
    /\ \A op \in Ops \ {"add", "remove"} :
           Calls(op, Standalone) \in TrainerCalls /\ Calls(op, Servers) \in TrainerCalls
    /\ \A op, on : Calls(op, on).op = op /\ Calls(op, on).on = on
<1>1. Hybrid \subseteq Servers /\ Standalone \subseteq Servers
  BY DEF Servers
<1> QED BY <1>1 DEF Calls, TrainerCalls

LEMMA PieceTypes ==
    /\ Push \in Seq(TrainerCalls) /\ Deactivate \in Seq(TrainerCalls)
    /\ SwitchToRollout \in Seq(TrainerCalls) /\ Rebalance \in Seq(TrainerCalls)
    /\ Activate \in Seq(TrainerCalls) /\ Validate \in Seq(TrainerCalls)
<1>1. /\ Calls("abort", Standalone) \in TrainerCalls /\ Calls("update", Standalone) \in TrainerCalls
      /\ Calls("resume", Standalone) \in TrainerCalls
  BY CallsType DEF Ops
<1>2. /\ Calls("abort", Hybrid) \in TrainerCalls /\ Calls("remove", Hybrid) \in TrainerCalls
      /\ Calls("sleep", Hybrid) \in TrainerCalls /\ Calls("update", Hybrid) \in TrainerCalls
      /\ Calls("resume", Hybrid) \in TrainerCalls /\ Calls("add", Hybrid) \in TrainerCalls
  BY CallsType DEF Ops
<1>3. /\ Calls("clear", Servers) \in TrainerCalls /\ Calls("abort", Servers) \in TrainerCalls
      /\ Calls("resume", Servers) \in TrainerCalls
  BY CallsType DEF Ops
<1>4. Push \in Seq(TrainerCalls)
  BY <1>1 DEF Push
<1>5. Deactivate \in Seq(TrainerCalls)
  BY <1>2 DEF Deactivate
<1>6. SwitchToRollout \in Seq(TrainerCalls)
  BY <1>2 DEF SwitchToRollout
<1>7. Rebalance \in Seq(TrainerCalls)
  BY <1>3 DEF Rebalance
<1>8. Activate \in Seq(TrainerCalls)
  BY <1>2, <1>7 DEF Activate
<1>9. Validate \in Seq(TrainerCalls)
  BY <1>1, <1>2 DEF Validate
<1> QED BY <1>4, <1>5, <1>6, <1>7, <1>8, <1>9

LEMMA CycleType == \A activate \in BOOLEAN : Cycle(activate) \in Seq(TrainerCalls)
BY PieceTypes DEF Cycle

-----------------------------------------------------------------------------
LEMMA BaseInit == ASSUME Init PROVE BaseInv
<1>1. conf \in Configs /\ LastStep \in Nat /\ LastStep > 0 /\ NoServer \notin Servers
      /\ Budget \in Nat /\ Budget > 0
  BY ConfFacts DEF Init
<1>2. NewCall \in CallType
  BY <1>1 DEF NewCall, CallType
<1>3. call \in [Requests -> CallType] /\ \A r \in Requests : call[r] = NewCall
  BY <1>2 DEF Init
<1>4. active \in BOOLEAN
  BY DEF Init
<1>5. DOMAIN inflight \subseteq Servers /\ \A s \in DOMAIN inflight : inflight[s] \in Nat
  BY DEF Init, Servers
<1>6. paused \in [Servers -> BOOLEAN] /\ awake \in [Servers -> BOOLEAN]
  BY <1>4 DEF Init
<1>7. version \in [Servers -> Versions] /\ step \in Versions
  BY <1>1 DEF Init, Versions
<1>8. release \in [Requests -> Servers \cup {NoServer}] /\ \A r \in Requests : release[r] = NoServer
  BY DEF Init
<1>9. DOMAIN sticky = {} /\ script = <<>>
  BY DEF Init
<1>10. TypeInv
  BY <1>1, <1>3, <1>4, <1>5, <1>6, <1>7, <1>8, <1>9 DEF TypeInv
<1>11. StageInv
  BY <1>1, <1>3, <1>8 DEF StageInv, NewCall
<1> QED BY <1>10, <1>11 DEF BaseInv

(* A call is routed to a registered server.                                 *)
LEMMA ChoicesFacts == \A r : Choices(r) \subseteq DOMAIN inflight
BY DEF Choices, LeastLoaded

(* A call whose fields change within their types.                           *)
LEMMA CallChanges ==
    ASSUME BaseInv, NEW r \in Requests, NEW c \in CallType, call' = [call EXCEPT ![r] = c],
           c.at = NoServer <=> c.stage \in {"acquire", "done"},
           release'[r] # NoServer => c.at = NoServer,
           \A q \in Requests \ {r} : release'[q] = release[q],
           c.merged + c.limit = Budget, c.made <= c.limit
    PROVE  call' \in [Requests -> CallType] /\ StageInv'
<1>1. call \in [Requests -> CallType]
  BY DEF BaseInv, TypeInv
<1>2. call' \in [Requests -> CallType]
  BY <1>1
<1>3. StageInv'
  <2> SUFFICES ASSUME NEW q \in Requests
               PROVE  /\ call'[q].at = NoServer <=> call'[q].stage \in {"acquire", "done"}
                      /\ release'[q] # NoServer => call'[q].at = NoServer
                      /\ call'[q].merged + call'[q].limit = Budget
                      /\ call'[q].made <= call'[q].limit
    BY DEF StageInv
  <2>1. CASE q = r
    BY <1>1, <2>1
  <2>2. CASE q # r
    BY <1>1, <2>2 DEF BaseInv, StageInv
  <2> QED BY <2>1, <2>2
<1> QED BY <1>2, <1>3

(* A call between two attempts, or done.                                    *)
Received(o, next, total, left) ==
    [o EXCEPT !.stage = next, !.at = NoServer, !.aborted = FALSE,
              !.limit = left, !.merged = total, !.made = 0]

LEMMA ReceivedType ==
    ASSUME NEW o \in CallType, NEW next \in {"acquire", "done"}, NEW total \in 0 .. Budget,
           NEW left \in 0 .. Budget, Budget \in Nat
    PROVE  Received(o, next, total, left) \in CallType
<1>0. PICK none \in 0 .. Budget : none = 0
  OBVIOUS
<1>1. PICK d : d = [o EXCEPT !.stage = next, !.at = NoServer, !.aborted = FALSE]
  OBVIOUS
<1>2. d \in CallType
  BY <1>1 DEF CallType
<1>3. PICK e : e = [d EXCEPT !.limit = left, !.merged = total, !.made = none]
  OBVIOUS
<1>4. e = Received(o, next, total, left)
  BY <1>0, <1>1, <1>3 DEF CallType, Received
<1>5. e \in CallType
  BY <1>2, <1>3 DEF CallType
<1> QED BY <1>4, <1>5

LEMMA ClientBase == ASSUME BaseInv, NEW r \in Requests, Client(r) PROVE BaseInv'
<1> DEFINE o == call[r]
<1>1. /\ o \in CallType /\ LastStep \in Nat /\ NoServer \notin Servers
      /\ Budget \in Nat /\ Budget > 0
      /\ call \in [Requests -> CallType]
      /\ o.at = NoServer <=> o.stage \in {"acquire", "done"}
      /\ release[r] # NoServer => o.at = NoServer
      /\ o.merged + o.limit = Budget /\ o.made <= o.limit
  BY ConfFacts DEF BaseInv, TypeInv, StageInv
<1>2. [Next]_vars
  BY DEF Next
<1>3. /\ conf' = conf /\ Servers' = Servers /\ Versions' = Versions
      /\ CallType' = CallType /\ TrainerCalls' = TrainerCalls
  BY <1>2, ConfKept
<1>4. /\ o.limit \in Nat /\ o.made \in Nat /\ o.merged \in Nat /\ o.at \in Servers \cup {NoServer}
      /\ o.stage \in {"acquire", "sent", "running", "back", "done"}
  BY <1>1 DEF CallType
<1>5. CASE Acquire(r)
  <2>1. PICK s \in Choices(r) :
          /\ inflight' = [inflight EXCEPT ![s] = @ + 1]
          /\ sticky' = [q \in DOMAIN sticky \cup {r} |-> IF q = r THEN s ELSE sticky[q]]
          /\ call' = [call EXCEPT ![r].stage = "sent", ![r].at = s]
    BY <1>5 DEF Acquire
  <2>2. s \in DOMAIN inflight /\ s \in Servers
    BY ChoicesFacts DEF BaseInv, TypeInv
  <2> DEFINE c == [o EXCEPT !.stage = "sent", !.at = s]
  <2>3. c \in CallType /\ c.stage = "sent" /\ c.at = s /\ c.merged = o.merged
        /\ c.limit = o.limit /\ c.made = o.made
    BY <1>1, <2>2 DEF CallType
  <2>4. call' = [call EXCEPT ![r] = c]
    BY <1>1, <2>1
  <2>5. /\ release[r] = NoServer
        /\ UNCHANGED <<conf, release, paused, awake, version, script, step, active>>
    BY <1>5 DEF Acquire, serverVars, trainerVars
  <2> HIDE DEF c
  <2>6. call' \in [Requests -> CallType] /\ StageInv'
    BY <1>1, <2>2, <2>3, <2>4, <2>5, CallChanges
  <2>7. DOMAIN inflight' \subseteq Servers /\ \A t \in DOMAIN inflight' : inflight'[t] \in Nat
    BY <2>1, <2>2 DEF BaseInv, TypeInv
  <2>8. DOMAIN sticky' \subseteq Requests /\ \A q \in DOMAIN sticky' : sticky'[q] \in Servers
    BY <2>1, <2>2 DEF BaseInv, TypeInv
  <2> QED BY <1>3, <2>5, <2>6, <2>7, <2>8 DEF BaseInv, TypeInv
<1>6. CASE Arrive(r)
  <2> DEFINE c == [o EXCEPT !.stage = "running"]
  <2>3. c \in CallType /\ c.stage = "running" /\ c.at = o.at /\ c.merged = o.merged
        /\ c.limit = o.limit /\ c.made = o.made
    BY <1>1 DEF CallType
  <2>4. call' = [call EXCEPT ![r] = c]
    BY <1>1, <1>6 DEF Arrive
  <2>5. /\ o.stage = "sent"
        /\ UNCHANGED <<conf, inflight, sticky, release, paused, awake, version, script, step, active>>
    BY <1>6 DEF Arrive, balancerVars, serverVars, trainerVars
  <2> HIDE DEF c
  <2>6. call' \in [Requests -> CallType] /\ StageInv'
    BY <1>1, <2>3, <2>4, <2>5, CallChanges DEF BaseInv, StageInv
  <2> QED BY <1>3, <2>5, <2>6 DEF BaseInv, TypeInv
<1>7. CASE Emit(r)
  <2>1. /\ o.stage = "running" /\ o.made < o.limit
        /\ call' = [call EXCEPT ![r].made = @ + 1, ![r].by = @ \cup {version[o.at]}]
        /\ UNCHANGED <<conf, inflight, sticky, release, paused, awake, version, script, step, active>>
    BY <1>7 DEF Emit, balancerVars, serverVars, trainerVars
  <2>2. version[o.at] \in Versions
    BY <1>1, <1>4, <2>1 DEF BaseInv, TypeInv
  <2> DEFINE c == [o EXCEPT !.made = o.made + 1, !.by = o.by \cup {version[o.at]}]
  <2>3. o.made + 1 \in 0 .. Budget
    BY <1>1, <1>4, <2>1
  <2>4. c \in CallType /\ c.stage = "running" /\ c.at = o.at /\ c.merged = o.merged
        /\ c.limit = o.limit /\ c.made = o.made + 1
    BY <1>1, <2>1, <2>2, <2>3 DEF CallType
  <2>5. call' = [call EXCEPT ![r] = c]
    BY <1>1, <2>1
  <2> HIDE DEF c
  <2>6. call' \in [Requests -> CallType] /\ StageInv'
    BY <1>1, <1>4, <2>1, <2>4, <2>5, CallChanges DEF BaseInv, StageInv
  <2> QED BY <1>3, <2>1, <2>6 DEF BaseInv, TypeInv
<1>8. CASE Complete(r)
  <2> DEFINE c == Answer(call[r], FALSE)
  <2>1. /\ call[r].stage = "running" /\ call' = [call EXCEPT ![r] = c]
        /\ UNCHANGED <<conf, inflight, sticky, release, paused, awake, version, script, step, active>>
    BY <1>8 DEF Complete, balancerVars, serverVars, trainerVars
  <2>2. /\ c \in CallType /\ c.stage = "back" /\ c.at \in Servers /\ c.merged = o.merged
        /\ c.limit = o.limit /\ c.made = o.made /\ release[r] = NoServer
    BY <2>1, AnswerFacts
  <2> HIDE DEF c
  <2>3. call' \in [Requests -> CallType] /\ StageInv'
    BY <1>1, <2>1, <2>2, CallChanges
  <2> QED BY <1>3, <2>1, <2>3 DEF BaseInv, TypeInv
<1>9. CASE Receive(r)
  <2>0. PICK total \in 0 .. Budget, left \in 0 .. Budget :
            total = o.merged + o.made /\ left = Budget - total
    BY <1>1, <1>4
  <2> DEFINE over == total >= Budget \/ ~o.aborted \/ ~conf.partial
  <2>n. PICK next \in {"acquire", "done"} : next = IF over THEN "done" ELSE "acquire"
    OBVIOUS
  <2> DEFINE c == Received(o, next, total, left)
  <2>1. /\ o.stage = "back" /\ release' = [release EXCEPT ![r] = o.at]
        /\ call' = [call EXCEPT ![r] = c]
        /\ UNCHANGED <<conf, inflight, sticky, paused, awake, version, script, step, active>>
    BY <1>9, <2>0, <2>n DEF Receive, Received, balancerVars, serverVars, trainerVars
  <2>2. total + left = Budget /\ 0 <= left
    BY <1>1, <2>0
  <2>3. c \in CallType /\ c.stage = next /\ c.at = NoServer /\ c.merged = total
        /\ c.limit = left /\ c.made = 0
    <3>1. c \in CallType
      BY <1>1, ReceivedType
    <3> QED BY <1>1, <3>1 DEF Received, CallType
  <2> HIDE DEF c
  <2>4. \A q \in Requests \ {r} : release'[q] = release[q]
    BY <2>1 DEF BaseInv, TypeInv
  <2>5. call' \in [Requests -> CallType] /\ StageInv'
    BY <1>1, <2>1, <2>2, <2>3, <2>4, CallChanges
  <2>6. release' \in [Requests -> Servers \cup {NoServer}]
    BY <1>4, <2>1 DEF BaseInv, TypeInv
  <2> QED BY <1>3, <2>1, <2>5, <2>6 DEF BaseInv, TypeInv
<1>10. CASE Release(r)
  <2>1. /\ release[r] # NoServer /\ release' = [release EXCEPT ![r] = NoServer]
        /\ inflight' = IF release[r] \in DOMAIN inflight /\ inflight[release[r]] > 0
                       THEN [inflight EXCEPT ![release[r]] = @ - 1] ELSE inflight
        /\ UNCHANGED <<conf, sticky, paused, awake, version, call, script, step, active>>
    BY <1>10 DEF Release, serverVars, trainerVars
  <2>2. DOMAIN inflight' \subseteq Servers /\ \A t \in DOMAIN inflight' : inflight'[t] \in Nat
    BY <2>1 DEF BaseInv, TypeInv
  <2>3. release' \in [Requests -> Servers \cup {NoServer}]
    BY <2>1 DEF BaseInv, TypeInv
  <2>4. StageInv'
    <3>1. \A q \in Requests : release'[q] # NoServer => release[q] # NoServer
      BY <2>1 DEF BaseInv, TypeInv
    <3> QED BY <2>1, <3>1 DEF BaseInv, StageInv
  <2> QED BY <1>3, <2>1, <2>2, <2>3, <2>4 DEF BaseInv, TypeInv
<1> QED BY <1>5, <1>6, <1>7, <1>8, <1>9, <1>10 DEF Client

LEMMA HeadFacts ==
    ASSUME TypeInv, script # <<>>
    PROVE  /\ Head(script) \in TrainerCalls /\ Tail(script) \in Seq(TrainerCalls)
           /\ Head(script) = script[1] /\ 1 \in DOMAIN script
           /\ Head(script).on \subseteq Servers /\ Head(script).op \in Ops
           /\ Head(script).op \in {"add", "remove"} => Head(script).on \subseteq Hybrid
<1>1. script \in Seq(TrainerCalls)
  BY DEF TypeInv
<1>2. /\ Head(script) \in TrainerCalls /\ Tail(script) \in Seq(TrainerCalls)
      /\ Head(script) = script[1] /\ 1 \in DOMAIN script
  BY <1>1
<1> QED BY <1>2 DEF TrainerCalls

(* A call that one server of its group has answered.                        *)
LEMMA Shrunk ==
    ASSUME TypeInv, script # <<>>, NEW s
    PROVE  /\ [Head(script) EXCEPT !.on = @ \ {s}] \in TrainerCalls
           /\ <<[Head(script) EXCEPT !.on = @ \ {s}]>> \o Tail(script) \in Seq(TrainerCalls)
<1>1. PICK h : h = [Head(script) EXCEPT !.on = @ \ {s}]
  OBVIOUS
<1>2. h \in TrainerCalls
  BY <1>1, HeadFacts DEF TrainerCalls
<1> QED BY <1>1, <1>2, HeadFacts

LEMMA AbortedFacts ==
    ASSUME BaseInv, NEW s \in Servers
    PROVE  /\ Aborted(s) \in [Requests -> CallType]
           /\ \A r \in Requests :
                  Aborted(s)[r] = IF call[r].stage = "running" /\ call[r].at = s
                                  THEN Answer(call[r], TRUE) ELSE call[r]
<1>1. \A r \in Requests : call[r].stage = "running" => Answer(call[r], TRUE) \in CallType
  BY AnswerFacts
<1>2. \A r \in Requests : call[r] \in CallType
  BY DEF BaseInv, TypeInv
<1> QED BY <1>1, <1>2 DEF Aborted

LEMMA TrainerBase == ASSUME BaseInv, Trainer PROVE BaseInv'
<1>1. [Next]_vars
  BY DEF Next
<1>2. /\ conf' = conf /\ Servers' = Servers /\ Versions' = Versions /\ Hybrid' = Hybrid
      /\ CallType' = CallType /\ TrainerCalls' = TrainerCalls
  BY <1>1, ConfKept
<1>3. conf \in Configs /\ LastStep \in Nat /\ Hybrid \subseteq Servers
  BY ConfFacts DEF BaseInv, TypeInv
<1>4. CASE Step
  <2>1. /\ script = <<>> /\ step < LastStep /\ step' = step + 1
        /\ UNCHANGED <<conf, inflight, sticky, release, paused, awake, version, call>>
    BY <1>4 DEF Step, balancerVars, serverVars
  <2>2. PICK activate \in BOOLEAN :
            script' = Cycle(activate) /\ active' = (activate /\ conf.control # "validate")
    BY <1>4 DEF Step
  <2>3. script' \in Seq(TrainerCalls)
    BY <1>3, <2>2, CycleType
  <2>4. active' \in BOOLEAN
    BY <2>2
  <2>5. step' \in Versions
    BY <1>3, <2>1 DEF BaseInv, TypeInv, Versions
  <2>6. StageInv'
    BY <2>1 DEF BaseInv, StageInv
  <2> QED BY <1>2, <2>1, <2>3, <2>4, <2>5, <2>6 DEF BaseInv, TypeInv
<1>5. CASE Route
  <2>1. /\ script # <<>> /\ script' = Tail(script)
        /\ UNCHANGED <<conf, release, paused, awake, version, call, step, active>>
    BY <1>5 DEF Route, serverVars
  <2>2. script' \in Seq(TrainerCalls) /\ Head(script).on \subseteq Servers
    BY <2>1, HeadFacts DEF BaseInv
  <2>3. \/ /\ inflight' = [s \in DOMAIN inflight \cup Head(script).on |->
                             IF s \in Head(script).on THEN 0 ELSE inflight[s]]
           /\ sticky' = sticky
        \/ /\ inflight' = [s \in DOMAIN inflight \ Head(script).on |-> inflight[s]]
           /\ sticky' = sticky
        \/ sticky' = [r \in {} |-> NoServer] /\ inflight' = inflight
    BY <1>5 DEF Route
  <2>4. DOMAIN inflight' \subseteq Servers /\ \A s \in DOMAIN inflight' : inflight'[s] \in Nat
    BY <2>2, <2>3 DEF BaseInv, TypeInv
  <2>5. DOMAIN sticky' \subseteq Requests /\ \A r \in DOMAIN sticky' : sticky'[r] \in Servers
    BY <2>3 DEF BaseInv, TypeInv
  <2>6. StageInv'
    BY <2>1 DEF BaseInv, StageInv
  <2> QED BY <1>2, <2>1, <2>2, <2>4, <2>5, <2>6 DEF BaseInv, TypeInv
<1>6. CASE Skip
  <2>1. /\ script # <<>> /\ script' = Tail(script)
        /\ UNCHANGED <<conf, inflight, sticky, release, paused, awake, version, call, step, active>>
    BY <1>6 DEF Skip, balancerVars, serverVars
  <2>2. script' \in Seq(TrainerCalls)
    BY <2>1, HeadFacts DEF BaseInv
  <2>3. StageInv'
    BY <2>1 DEF BaseInv, StageInv
  <2> QED BY <1>2, <2>1, <2>2, <2>3 DEF BaseInv, TypeInv
<1>7. ASSUME NEW s \in Servers, Serve(s) PROVE BaseInv'
  <2>1. /\ script # <<>> /\ s \in Head(script).on
        /\ script' = IF Head(script).on = {s} THEN Tail(script)
                     ELSE <<[Head(script) EXCEPT !.on = @ \ {s}]>> \o Tail(script)
        /\ UNCHANGED <<conf, inflight, sticky, release, step, active>>
    BY <1>7 DEF Serve, balancerVars
  <2>2. script' \in Seq(TrainerCalls)
    BY <2>1, HeadFacts, Shrunk DEF BaseInv
  <2>3. \/ /\ paused' = [paused EXCEPT ![s] = TRUE] /\ call' = Aborted(s)
           /\ UNCHANGED <<awake, version>>
        \/ paused' = [paused EXCEPT ![s] = FALSE] /\ UNCHANGED <<awake, version, call>>
        \/ /\ awake' = [awake EXCEPT ![s] = TRUE] /\ version' = [version EXCEPT ![s] = step]
           /\ UNCHANGED <<paused, call>>
        \/ awake' = [awake EXCEPT ![s] = FALSE] /\ UNCHANGED <<paused, version, call>>
    BY <1>7 DEF Serve
  <2>4. /\ paused' \in [Servers -> BOOLEAN] /\ awake' \in [Servers -> BOOLEAN]
        /\ version' \in [Servers -> Versions]
    BY <2>3 DEF BaseInv, TypeInv
  <2>5. \/ call' = call
        \/ /\ call' \in [Requests -> CallType]
           /\ \A r \in Requests :
                  call'[r] = IF call[r].stage = "running" /\ call[r].at = s
                             THEN Answer(call[r], TRUE) ELSE call[r]
    <3>1. call' = call \/ call' = Aborted(s)
      BY <2>3
    <3>2. CASE call' = Aborted(s)
      BY <3>2, AbortedFacts
    <3> QED BY <3>1, <3>2
  <2>6. StageInv'
    <3>1. CASE call' = call
      BY <2>1, <3>1 DEF BaseInv, StageInv
    <3>2. CASE call' # call
      <4> SUFFICES ASSUME NEW r \in Requests
                   PROVE  /\ call'[r].at = NoServer <=> call'[r].stage \in {"acquire", "done"}
                          /\ release'[r] # NoServer => call'[r].at = NoServer
                          /\ call'[r].merged + call'[r].limit = Budget
                          /\ call'[r].made <= call'[r].limit
        BY DEF StageInv
      <4>1. CASE call[r].stage = "running" /\ call[r].at = s
        <5> DEFINE c == Answer(call[r], TRUE)
        <5>1. call'[r] = c
          BY <2>5, <3>2, <4>1
        <5>2. NoServer \notin Servers
          BY <1>3, ConfFacts
        <5>3. /\ c.stage = "back" /\ c.at \in Servers /\ c.limit = call[r].limit
              /\ c.made = call[r].made /\ c.merged = call[r].merged /\ release[r] = NoServer
          BY <4>1, AnswerFacts
        <5> HIDE DEF c
        <5> QED BY <2>1, <5>1, <5>2, <5>3 DEF BaseInv, StageInv
      <4>2. CASE ~(call[r].stage = "running" /\ call[r].at = s)
        <5>1. call'[r] = call[r]
          BY <2>5, <3>2, <4>2
        <5> QED BY <2>1, <5>1 DEF BaseInv, StageInv
      <4> QED BY <4>1, <4>2
    <3> QED BY <3>1, <3>2
  <2> QED BY <1>2, <2>1, <2>2, <2>4, <2>5, <2>6 DEF BaseInv, TypeInv
<1> QED BY <1>4, <1>5, <1>6, <1>7 DEF Trainer

LEMMA BaseStep == ASSUME BaseInv, [Next]_vars PROVE BaseInv'
<1>1. CASE UNCHANGED vars
  <2>1. CallType' = CallType /\ TrainerCalls' = TrainerCalls /\ Servers' = Servers
        /\ Versions' = Versions
    BY ConfKept
  <2> QED BY <1>1, <2>1 DEF BaseInv, TypeInv, StageInv, vars, balancerVars, serverVars, trainerVars
<1>2. CASE Stopped
  BY <1>1, <1>2 DEF Stopped
<1> QED BY <1>1, <1>2, ClientBase, TrainerBase DEF Next

(* However often a call is cut off and resumed, its answer stays within the *)
(* budget of one answer: each retry may use only what is left.              *)
THEOREM AnswersWithinBudget == Spec => []BudgetRespected
<1>1. BaseInv => BudgetRespected
  <2> SUFFICES ASSUME BaseInv, NEW r \in Requests
               PROVE  call[r].merged + call[r].made <= Budget
    BY DEF BudgetRespected
  <2>1. /\ call[r].merged \in Nat /\ call[r].limit \in Nat /\ call[r].made \in Nat
        /\ call[r].merged + call[r].limit = Budget /\ call[r].made <= call[r].limit
        /\ Budget \in Nat
    BY ConfigAssumption DEF BaseInv, TypeInv, StageInv, CallType
  <2> QED BY <2>1
<1> QED BY <1>1, BaseInit, BaseStep, PTL DEF Spec

-----------------------------------------------------------------------------
(* The counts of the balancer.                                              *)
At(s) == {r \in Requests : call[r].at = s}
Released(s) == {r \in Requests : release[r] = s}

LEMMA LoadFacts ==
    /\ \A s : /\ IsFiniteSet(At(s)) /\ IsFiniteSet(Released(s))
             /\ Cardinality(At(s)) \in Nat /\ Cardinality(Released(s)) \in Nat
             /\ Load(s) = Cardinality(At(s)) + Cardinality(Released(s))
             /\ Load(s) \in Nat
    /\ \A s : /\ IsFiniteSet(At(s)') /\ IsFiniteSet(Released(s)')
             /\ Cardinality(At(s)') \in Nat /\ Cardinality(Released(s)') \in Nat
             /\ Load(s)' = Cardinality(At(s)') + Cardinality(Released(s)')
             /\ Load(s)' \in Nat
<1>1. \A S : S \subseteq Requests => IsFiniteSet(S) /\ Cardinality(S) \in Nat
  BY ConfigAssumption, FS_Subset, FS_CardinalityType
<1>2. \A s : At(s) \subseteq Requests /\ Released(s) \subseteq Requests
  BY DEF At, Released
<1>3. \A s : At(s)' \subseteq Requests /\ Released(s)' \subseteq Requests
  BY DEF At, Released
<1>4. \A s : Load(s) = Cardinality(At(s)) + Cardinality(Released(s))
  BY DEF Load, At, Released
<1>5. \A s : Load(s)' = Cardinality(At(s)') + Cardinality(Released(s)')
  BY DEF Load, At, Released
<1> QED BY <1>1, <1>2, <1>3, <1>4, <1>5

LEMMA LoadKept ==
    ASSUME \A r \in Requests : call'[r].at = call[r].at /\ release'[r] = release[r]
    PROVE  \A s : Load(s)' = Load(s)
<1>1. \A s : At(s)' = At(s) /\ Released(s)' = Released(s)
  BY DEF At, Released
<1> QED BY <1>1, LoadFacts

LEMMA CountStep == ASSUME BaseInv, CountsAreSound, [Next]_vars PROVE CountsAreSound'
<1>1. /\ Servers' = Servers /\ Standalone' = Standalone /\ NoServer \notin Servers
      /\ Servers = Standalone \cup Hybrid /\ Standalone \cap Hybrid = {}
  BY ConfKept, ConfFacts DEF BaseInv, TypeInv
<1>2. /\ call \in [Requests -> CallType] /\ release \in [Requests -> Servers \cup {NoServer}]
      /\ DOMAIN inflight \subseteq Servers /\ \A s \in DOMAIN inflight : inflight[s] \in Nat
  BY DEF BaseInv, TypeInv
<1> DEFINE Sound(s) == inflight'[s] <= Load(s)' /\ (s \in Standalone => inflight'[s] = Load(s)')
<1>3. ASSUME \A r \in Requests : call'[r].at = call[r].at /\ release'[r] = release[r],
             inflight' = inflight
      PROVE  CountsAreSound'
  BY <1>1, <1>3, LoadKept DEF CountsAreSound
<1>4. ASSUME NEW r \in Requests, Acquire(r) PROVE CountsAreSound'
  <2>1. PICK s \in Choices(r) :
          /\ inflight' = [inflight EXCEPT ![s] = @ + 1]
          /\ call' = [call EXCEPT ![r].stage = "sent", ![r].at = s]
    BY <1>4 DEF Acquire
  <2>2. release' = release /\ s \in DOMAIN inflight /\ s \in Servers /\ call[r].at = NoServer
    BY <1>2, <1>4, ChoicesFacts DEF Acquire, BaseInv, StageInv
  <2>3. call'[r].at = s /\ \A q \in Requests \ {r} : call'[q] = call[q]
    BY <1>2, <2>1 DEF CallType
  <2>4. At(s)' = At(s) \cup {r} /\ r \notin At(s)
    BY <1>1, <2>2, <2>3 DEF At
  <2>5. \A t \in Servers \ {s} : At(t)' = At(t)
    BY <1>1, <2>2, <2>3 DEF At
  <2>6. \A t : Released(t)' = Released(t)
    BY <2>2 DEF Released
  <2>7. Cardinality(At(s)') = Cardinality(At(s)) + 1
    BY <2>4, LoadFacts, FS_AddElement
  <2>8. Load(s)' = Load(s) + 1
    BY <2>6, <2>7, LoadFacts
  <2>9. \A t \in Servers \ {s} : Load(t)' = Load(t)
    BY <2>5, <2>6, LoadFacts
  <2> SUFFICES ASSUME NEW t \in DOMAIN inflight' PROVE Sound(t)
    BY <1>1 DEF CountsAreSound
  <2>10. t \in DOMAIN inflight /\ t \in Servers
    BY <1>2, <2>1
  <2>11. CASE t = s
    BY <1>2, <2>1, <2>2, <2>8, <2>11, LoadFacts DEF CountsAreSound
  <2>12. CASE t # s
    BY <1>2, <2>1, <2>2, <2>9, <2>10, <2>12 DEF CountsAreSound
  <2> QED BY <2>11, <2>12
<1>5. ASSUME NEW r \in Requests, Receive(r) PROVE CountsAreSound'
  <2>1. PICK x \in Servers : x = call[r].at
    BY <1>2, <1>5 DEF Receive, BaseInv, StageInv, CallType
  <2>2. /\ inflight' = inflight /\ release[r] = NoServer
        /\ release'[r] = x /\ \A q \in Requests \ {r} : release'[q] = release[q]
    BY <1>1, <1>2, <1>5, <2>1 DEF Receive, balancerVars, BaseInv, StageInv
  <2>3. call'[r].at = NoServer /\ \A q \in Requests \ {r} : call'[q] = call[q]
    BY <1>2, <1>5 DEF Receive, CallType
  <2>4. At(x)' = At(x) \ {r} /\ r \in At(x)
    BY <1>1, <2>1, <2>3 DEF At
  <2>5. Released(x)' = Released(x) \cup {r} /\ r \notin Released(x)
    BY <1>1, <2>1, <2>2 DEF Released
  <2>6. \A t \in Servers \ {x} : At(t)' = At(t) /\ Released(t)' = Released(t)
    BY <1>1, <2>1, <2>2, <2>3 DEF At, Released
  <2>7. Cardinality(At(x)') = Cardinality(At(x)) - 1
    BY <2>4, LoadFacts, FS_RemoveElement
  <2>8. Cardinality(Released(x)') = Cardinality(Released(x)) + 1
    BY <2>5, LoadFacts, FS_AddElement
  <2>9. Load(x)' = Load(x)
    BY <2>7, <2>8, LoadFacts
  <2>10. \A t \in Servers : Load(t)' = Load(t)
    BY <2>6, <2>9, LoadFacts
  <2> QED BY <1>1, <1>2, <2>2, <2>10 DEF CountsAreSound
<1>6. ASSUME NEW r \in Requests, Release(r) PROVE CountsAreSound'
  <2>1. PICK x \in Servers : x = release[r]
    BY <1>2, <1>6 DEF Release
  <2>2. /\ call' = call /\ release'[r] = NoServer
        /\ \A q \in Requests \ {r} : release'[q] = release[q]
        /\ inflight' = IF x \in DOMAIN inflight /\ inflight[x] > 0
                       THEN [inflight EXCEPT ![x] = @ - 1] ELSE inflight
    BY <1>2, <1>6, <2>1 DEF Release
  <2>3. \A t : At(t)' = At(t)
    BY <2>2 DEF At
  <2>4. Released(x)' = Released(x) \ {r} /\ r \in Released(x)
    BY <1>1, <2>1, <2>2 DEF Released
  <2>5. \A t \in Servers \ {x} : Released(t)' = Released(t)
    BY <1>1, <2>1, <2>2 DEF Released
  <2>6. Cardinality(Released(x)') = Cardinality(Released(x)) - 1
    BY <2>4, LoadFacts, FS_RemoveElement
  <2>7. Load(x)' = Load(x) - 1
    BY <2>3, <2>6, LoadFacts
  <2>8. \A t \in Servers \ {x} : Load(t)' = Load(t)
    BY <2>3, <2>5, LoadFacts
  <2> SUFFICES ASSUME NEW t \in DOMAIN inflight' PROVE Sound(t)
    BY <1>1 DEF CountsAreSound
  <2>9. t \in DOMAIN inflight /\ t \in Servers /\ inflight[t] \in Nat
    BY <1>2, <2>2
  <2>10. CASE t = x /\ inflight[x] > 0
    <3>1. inflight'[t] = inflight[t] - 1
      BY <2>2, <2>9, <2>10
    <3> QED BY <2>7, <2>9, <2>10, <3>1, LoadFacts DEF CountsAreSound
  <2>11. CASE t = x /\ ~(inflight[x] > 0)
    <3>1. inflight'[t] = inflight[t] /\ inflight[t] = 0
      BY <2>2, <2>9, <2>11
    <3>2. Load(x)' \in Nat /\ Load(x) \in Nat
      BY LoadFacts
    <3>3. t \notin Standalone
      BY <2>7, <2>9, <2>11, <3>1, <3>2 DEF CountsAreSound
    <3> QED BY <2>11, <3>1, <3>2, <3>3
  <2>12. CASE t # x
    <3>1. inflight'[t] = inflight[t]
      BY <2>2, <2>9, <2>12
    <3> QED BY <2>8, <2>9, <2>12, <3>1 DEF CountsAreSound
  <2> QED BY <2>10, <2>11, <2>12
<1>7. ASSUME Route PROVE CountsAreSound'
  <2>1. script # <<>> /\ call' = call /\ release' = release
    BY <1>7 DEF Route
  <2>2. \A s : Load(s)' = Load(s)
    BY <2>1, LoadKept
  <2>3. CASE Head(script).op = "add"
    <3>1. /\ Head(script).on \subseteq Hybrid
          /\ inflight' = [s \in DOMAIN inflight \cup Head(script).on |->
                             IF s \in Head(script).on THEN 0 ELSE inflight[s]]
      BY <1>7, <2>1, <2>3, HeadFacts DEF Route, BaseInv
    <3>2. \A s : Load(s) \in Nat
      BY LoadFacts
    <3> SUFFICES ASSUME NEW t \in DOMAIN inflight' PROVE Sound(t)
      BY <1>1 DEF CountsAreSound
    <3>3. CASE t \in Head(script).on
      <4>1. inflight'[t] = 0 /\ t \notin Standalone
        BY <1>1, <3>1, <3>3
      <4> QED BY <2>2, <3>2, <4>1
    <3>4. CASE t \notin Head(script).on
      <4>1. inflight'[t] = inflight[t] /\ t \in DOMAIN inflight
        BY <3>1, <3>4
      <4> QED BY <2>2, <4>1 DEF CountsAreSound
    <3> QED BY <3>3, <3>4
  <2>4. CASE Head(script).op # "add"
    <3>1. \A t \in DOMAIN inflight' : t \in DOMAIN inflight /\ inflight'[t] = inflight[t]
      BY <1>7, <2>4 DEF Route
    <3> QED BY <1>1, <2>2, <3>1 DEF CountsAreSound
  <2> QED BY <2>3, <2>4
<1>8. ASSUME NEW r \in Requests, Arrive(r) \/ Emit(r) PROVE CountsAreSound'
  <2>1. /\ release' = release /\ inflight' = inflight
        /\ \A q \in Requests : call'[q].at = call[q].at
    BY <1>2, <1>8 DEF Arrive, Emit, balancerVars, CallType
  <2> QED BY <1>3, <2>1
<1>9. ASSUME NEW r \in Requests, Complete(r) PROVE CountsAreSound'
  <2>1. /\ release' = release /\ inflight' = inflight
        /\ call[r].stage = "running" /\ call' = [call EXCEPT ![r] = Answer(call[r], FALSE)]
    BY <1>9 DEF Complete, balancerVars
  <2>2. Answer(call[r], FALSE).at = call[r].at
    BY <2>1, AnswerFacts
  <2>3. \A q \in Requests : call'[q].at = call[q].at
    BY <1>2, <2>1, <2>2
  <2> QED BY <1>3, <2>1, <2>3
<1>10. ASSUME NEW s \in Servers, Serve(s) PROVE CountsAreSound'
  <2>1. release' = release /\ inflight' = inflight
    BY <1>10 DEF Serve, balancerVars
  <2>2. call' = call \/ call' = Aborted(s)
    BY <1>10 DEF Serve
  <2>3. CASE call' = call
    BY <1>3, <2>1, <2>3
  <2>4. CASE call' = Aborted(s)
    <3>1. \A r \in Requests : call[r].stage = "running" => Answer(call[r], TRUE).at = call[r].at
      BY AnswerFacts
    <3>2. \A r \in Requests : call'[r].at = call[r].at
      BY <2>4, <3>1, AbortedFacts
    <3> QED BY <1>3, <2>1, <3>2
  <2> QED BY <2>2, <2>3, <2>4
<1>11. CASE Step \/ Skip \/ Stopped \/ UNCHANGED vars
  <2>1. call' = call /\ release' = release /\ inflight' = inflight
    BY <1>11 DEF Step, Skip, Stopped, vars, balancerVars
  <2> QED BY <1>3, <2>1
<1> QED BY <1>4, <1>5, <1>6, <1>7, <1>8, <1>9, <1>10, <1>11 DEF Next, Client, Trainer

LEMMA CountInit == ASSUME Init PROVE CountsAreSound
<1>1. BaseInv
  BY BaseInit
<1>2. \A r \in Requests : call[r].at = NoServer /\ release[r] = NoServer
  BY DEF Init, NewCall
<1>3. NoServer \notin Servers
  BY <1>1, ConfFacts DEF BaseInv, TypeInv
<1>4. \A s \in Servers : At(s) = {} /\ Released(s) = {}
  BY <1>2, <1>3 DEF At, Released
<1>5. \A s \in Servers : Load(s) = 0
  BY <1>4, LoadFacts, FS_EmptySet
<1>6. \A s \in DOMAIN inflight : inflight[s] = 0 /\ s \in Servers
  BY DEF Init, Servers
<1> QED BY <1>5, <1>6 DEF CountsAreSound

(* The balancer never counts a call too many, whatever is removed, added    *)
(* again and released late; for a standalone server the count is exact.     *)
THEOREM CountsStaySound == Spec => []CountsAreSound
<1>1. Spec => []BaseInv
  BY BaseInit, BaseStep, PTL DEF Spec
<1>2. BaseInv /\ CountsAreSound /\ [Next]_vars => CountsAreSound'
  BY CountStep
<1> QED BY <1>1, <1>2, CountInit, PTL DEF Spec

(* Types; no count exceeds the number of calls there are.                   *)
THEOREM TypesHold == Spec => []TypeOK
<1>1. Spec => []BaseInv
  BY BaseInit, BaseStep, PTL DEF Spec
<1>2. BaseInv /\ CountsAreSound => TypeOK
  <2> SUFFICES ASSUME BaseInv, CountsAreSound PROVE TypeOK
    OBVIOUS
  <2>1. \A s \in DOMAIN inflight : inflight[s] \in 0 .. Cardinality(Requests)
    <3> TAKE s \in DOMAIN inflight
    <3>1. NoServer \notin Servers /\ s \in Servers /\ inflight[s] \in Nat
      BY ConfFacts DEF BaseInv, TypeInv
    <3>2. At(s) \cap Released(s) = {}
      BY <3>1 DEF At, Released, BaseInv, StageInv
    <3>3. At(s) \cup Released(s) \subseteq Requests
      BY DEF At, Released
    <3>4. Cardinality(At(s) \cup Released(s)) <= Cardinality(Requests)
      BY <3>3, ConfigAssumption, FS_Subset
    <3>5. Cardinality(At(s) \cup Released(s)) = Load(s)
      BY <3>2, LoadFacts, FS_Union, FS_EmptySet
    <3>6. Cardinality(Requests) \in Nat /\ Load(s) \in Nat /\ inflight[s] <= Load(s)
      BY LoadFacts, ConfigAssumption, FS_CardinalityType DEF CountsAreSound
    <3> QED BY <3>1, <3>4, <3>5, <3>6
  <2>2. \A i \in DOMAIN script : script[i].op \in Ops /\ script[i].on \subseteq Servers
    <3> SUFFICES ASSUME NEW i \in DOMAIN script
                 PROVE  script[i].op \in Ops /\ script[i].on \subseteq Servers
      OBVIOUS
    <3>1. script[i] \in TrainerCalls
      BY DEF BaseInv, TypeInv
    <3> QED BY <3>1 DEF TrainerCalls
  <2> QED BY <2>1, <2>2 DEF BaseInv, TypeInv, TypeOK
<1> QED BY <1>1, <1>2, CountsStaySound, PTL

-----------------------------------------------------------------------------
(* What the calls of the trainer still to come do to the servers.  A forecast*)
(* says which servers are registered, paused and awake, which hold the      *)
(* weights of this step (fresh) or of the one before (stale), and which can *)
(* not generate before they are resumed or registered (drained).            *)
Forecasts ==
    [reg: SUBSET Servers, paused: SUBSET Servers, awake: SUBSET Servers,
     fresh: SUBSET Servers, stale: SUBSET Servers, drained: SUBSET Servers]

After(c, f) ==
    [reg     |-> IF c.op = "add" THEN f.reg \cup c.on
                 ELSE IF c.op = "remove" THEN f.reg \ c.on ELSE f.reg,
     paused  |-> IF c.op = "abort" THEN f.paused \cup c.on
                 ELSE IF c.op = "resume" THEN f.paused \ c.on ELSE f.paused,
     awake   |-> IF c.op = "update" THEN f.awake \cup c.on
                 ELSE IF c.op = "sleep" THEN f.awake \ c.on ELSE f.awake,
     fresh   |-> IF c.op = "update" THEN f.fresh \cup c.on ELSE f.fresh,
     stale   |-> IF c.op = "update" THEN f.stale \ c.on ELSE f.stale,
     drained |-> IF c.op = "abort" THEN f.drained \cup c.on
                 ELSE IF c.op \in {"resume", "add"} THEN f.drained \ c.on ELSE f.drained]

(* A server generates, or may soon, only with weights in memory, and all    *)
(* those that do have the same.                                             *)
Sound(f) ==
    /\ f.reg \subseteq f.awake
    /\ Servers \ f.awake \subseteq f.drained
    /\ Servers \ f.drained \subseteq f.fresh \/ Servers \ f.drained \subseteq f.stale

(* Weights are taken only from drained servers, and only servers with the   *)
(* weights of this step go on.                                              *)
Allowed(c, f) ==
    /\ c.op \in {"update", "sleep"} => c.on \subseteq f.drained
    /\ c.op = "sleep" => c.on \cap f.reg = {}
    /\ c.op \in {"add", "resume"} => c.on \subseteq f.awake \cap f.fresh
    /\ c.op = "remove" => c.on \cap f.paused = {}

Resumes(c, s) == c.op = "resume" /\ s \in c.on

(* Between two steps; a tells whether the hybrid servers are in the rollout.*)
Settled(f, a) ==
    /\ f.reg = IF a THEN Servers ELSE Standalone
    /\ f.reg \cap f.paused = {}
    /\ Servers \ f.drained \subseteq f.fresh
    /\ Servers \ f.reg \subseteq f.drained

Good(q, f, a) ==
    /\ q \in Seq(TrainerCalls) /\ f \in Forecasts /\ Sound(f)
    /\ q = <<>> => Settled(f, a)
    /\ q # <<>> => Allowed(Head(q), f)
    /\ \A s \in f.reg \cap f.paused : \E i \in DOMAIN q : Resumes(q[i], s)

Closed(P, a) ==
    \A q, f : <<q, f>> \in P =>
        Good(q, f, a) /\ (q # <<>> => <<Tail(q), After(Head(q), f)>> \in P)

(* The calls q can be made, one after the other, on servers as in f.        *)
Safe(q, f, a) == \E P : Closed(P, a) /\ <<q, f>> \in P

LEMMA AfterType ==
    ASSUME NEW c \in TrainerCalls, NEW f \in Forecasts PROVE After(c, f) \in Forecasts
BY DEF After, Forecasts, TrainerCalls

LEMMA SafeEmpty ==
    ASSUME NEW f \in Forecasts, NEW a, Sound(f), Settled(f, a)
    PROVE  Safe(<<>>, f, a)
<1>1. Good(<<>>, f, a)
  BY DEF Good, Settled
<1>2. Closed({<<<<>>, f>>}, a)
  BY <1>1 DEF Closed
<1> QED BY <1>2 DEF Safe

LEMMA SafeTail ==
    ASSUME NEW q, NEW f, NEW a, Safe(q, f, a)
    PROVE  /\ Good(q, f, a)
           /\ q # <<>> => Safe(Tail(q), After(Head(q), f), a)
BY DEF Safe, Closed

LEMMA ConsFacts ==
    ASSUME NEW S, NEW c \in S, NEW q \in Seq(S)
    PROVE  /\ <<c>> \o q \in Seq(S) /\ <<c>> \o q # <<>>
           /\ Head(<<c>> \o q) = c /\ Tail(<<c>> \o q) = q
           /\ (<<c>> \o q)[1] = c /\ 1 \in DOMAIN (<<c>> \o q)
           /\ \A i \in DOMAIN q : i + 1 \in DOMAIN (<<c>> \o q) /\ (<<c>> \o q)[i + 1] = q[i]
<1>1. PICK t : t = <<c>> \o q
  OBVIOUS
<1>2. <<c>> \in Seq(S) /\ Len(<<c>>) = 1 /\ <<c>>[1] = c
  OBVIOUS
<1>3. /\ t \in Seq(S) /\ Len(t) = 1 + Len(q)
      /\ \A i \in 1 .. 1 + Len(q) : t[i] = IF i <= 1 THEN <<c>>[i] ELSE q[i - 1]
  BY <1>1, <1>2, ConcatProperties
<1>4. Len(q) \in Nat /\ DOMAIN q = 1 .. Len(q) /\ DOMAIN t = 1 .. Len(t)
  BY <1>3
<1>5. t[1] = c /\ t # <<>> /\ 1 \in DOMAIN t
  BY <1>2, <1>3, <1>4
<1>6. \A i \in DOMAIN q : i + 1 \in DOMAIN t /\ t[i + 1] = q[i]
  BY <1>3, <1>4
<1>7. Head(t) = c
  BY <1>3, <1>5
<1>8. Tail(t) \in Seq(S) /\ Len(Tail(t)) = Len(q) /\ \A i \in 1 .. Len(q) : Tail(t)[i] = q[i]
  BY <1>3, <1>4, <1>5, <1>6, HeadTailProperties
<1>9. Tail(t) = q
  BY <1>8, SeqEqual
<1> QED BY <1>1, <1>3, <1>5, <1>6, <1>7, <1>9

LEMMA SafeCons ==
    ASSUME NEW c \in TrainerCalls, NEW q, NEW f \in Forecasts, NEW a,
           Sound(f), Allowed(c, f), Safe(q, After(c, f), a)
    PROVE  Safe(<<c>> \o q, f, a)
<1> DEFINE t == <<c>> \o q
<1>1. PICK P : Closed(P, a) /\ <<q, After(c, f)>> \in P
  BY DEF Safe
<1>2. Good(q, After(c, f), a) /\ q \in Seq(TrainerCalls)
  BY <1>1 DEF Closed, Good
<1>3. /\ t \in Seq(TrainerCalls) /\ t # <<>> /\ Head(t) = c /\ Tail(t) = q
      /\ t[1] = c /\ 1 \in DOMAIN t
      /\ \A i \in DOMAIN q : i + 1 \in DOMAIN t /\ t[i + 1] = q[i]
  BY <1>2, ConsFacts
<1> HIDE DEF t
<1>4. \A s \in f.reg \cap f.paused : \E i \in DOMAIN t : Resumes(t[i], s)
  <2> TAKE s \in f.reg \cap f.paused
  <2>1. CASE Resumes(c, s)
    BY <1>3, <2>1
  <2>2. CASE ~Resumes(c, s)
    <3>1. s \in After(c, f).reg \cap After(c, f).paused
      BY <2>2 DEF After, Resumes, Allowed
    <3>2. PICK i \in DOMAIN q : Resumes(q[i], s)
      BY <1>2, <3>1 DEF Good
    <3> QED BY <1>3, <3>2
  <2> QED BY <2>1, <2>2
<1>5. Good(t, f, a)
  BY <1>3, <1>4 DEF Good
<1> DEFINE R == P \cup {<<t, f>>}
<1>6. Closed(R, a)
  BY <1>1, <1>3, <1>5 DEF Closed
<1>7. Safe(t, f, a)
  BY <1>6 DEF Safe
<1> QED BY <1>7 DEF t

(* One server of the group answers first.                                   *)
LEMMA SafeShrunk ==
    ASSUME NEW q, NEW f, NEW a, Safe(q, f, a), q # <<>>, NEW s, s \in Head(q).on,
           Head(q).op \in {"abort", "resume", "update", "sleep"}
    PROVE  LET one == [op |-> Head(q).op, on |-> {s}]
           IN  Safe(IF Head(q).on = {s} THEN Tail(q)
                    ELSE <<[Head(q) EXCEPT !.on = @ \ {s}]>> \o Tail(q), After(one, f), a)
<1> DEFINE h == Head(q)
           one == [op |-> h.op, on |-> {s}]
           rest == [h EXCEPT !.on = @ \ {s}]
<1>1. Good(q, f, a) /\ Safe(Tail(q), After(h, f), a)
  BY SafeTail
<1>2. /\ h \in TrainerCalls /\ f \in Forecasts /\ Sound(f) /\ Allowed(h, f)
      /\ Sound(After(h, f))
  <2>1. q \in Seq(TrainerCalls) /\ f \in Forecasts /\ Sound(f) /\ Allowed(h, f)
    BY <1>1 DEF Good
  <2>2. h \in TrainerCalls
    BY <2>1
  <2>3. Sound(After(h, f))
    BY <1>1, SafeTail DEF Good
  <2> QED BY <2>1, <2>2, <2>3
<1>3. CASE h.on = {s}
  <2>1. After(one, f) = After(h, f)
    BY <1>3 DEF After
  <2> QED BY <1>1, <1>3, <2>1
<1>4. CASE h.on # {s}
  <2>1. /\ rest \in TrainerCalls /\ rest.op = h.op /\ rest.on = h.on \ {s}
        /\ one \in TrainerCalls /\ one.op = h.op /\ one.on = {s} /\ s \in h.on
    BY <1>2 DEF TrainerCalls
  <2> HIDE DEF rest, one, h
  <2>2. After(one, f) \in Forecasts
    BY <1>2, <2>1, AfterType
  <2>3. After(rest, After(one, f)) = After(h, f)
    <3>1. h.op \in {"abort", "resume", "update", "sleep"}
      BY DEF h
    <3> QED BY <1>2, <2>1, <3>1 DEF After, Forecasts
  <2>4. Allowed(rest, After(one, f))
    BY <1>2, <2>1 DEF After, Allowed
  <2>5. Sound(After(one, f))
    <3>1. h.op \in {"abort", "resume", "update", "sleep"}
      BY DEF h
    <3>2. CASE h.op = "abort"
      BY <1>2, <2>1, <3>2 DEF After, Allowed, Sound
    <3>3. CASE h.op = "resume"
      BY <1>2, <2>1, <3>3 DEF After, Allowed, Sound
    <3>4. CASE h.op = "update"
      BY <1>2, <2>1, <3>4 DEF After, Allowed, Sound
    <3>5. CASE h.op = "sleep"
      BY <1>2, <2>1, <3>5 DEF After, Allowed, Sound
    <3> QED BY <3>1, <3>2, <3>3, <3>4, <3>5
  <2>6. Safe(<<rest>> \o Tail(q), After(one, f), a)
    BY <1>1, <2>1, <2>2, <2>3, <2>4, <2>5, SafeCons
  <2> QED BY <1>4, <2>6 DEF rest, one, h
<1> QED BY <1>3, <1>4

LEMMA ThreeCons ==
    ASSUME NEW S, NEW c1 \in S, NEW c2 \in S, NEW c3 \in S, NEW q \in Seq(S)
    PROVE  <<c1, c2, c3>> \o q = <<c1>> \o (<<c2>> \o (<<c3>> \o q))
<1>1. PICK u3 : u3 = <<c3>> \o q
  OBVIOUS
<1>2. PICK u2 : u2 = <<c2>> \o u3
  OBVIOUS
<1>3. PICK u1 : u1 = <<c1>> \o u2
  OBVIOUS
<1>4. PICK v : v = <<c1, c2, c3>> \o q
  OBVIOUS
<1>5. Len(q) \in Nat
  OBVIOUS
<1>6. /\ u3 \in Seq(S) /\ Len(u3) = 1 + Len(q) /\ u3[1] = c3
      /\ \A i \in 1 .. Len(q) : u3[i + 1] = q[i]
  BY <1>1, <1>5, ConcatProperties, ConsFacts
<1>7. /\ u2 \in Seq(S) /\ Len(u2) = 2 + Len(q) /\ u2[1] = c2
      /\ \A i \in 1 .. 1 + Len(q) : u2[i + 1] = u3[i]
  BY <1>2, <1>5, <1>6, ConcatProperties, ConsFacts
<1>8. /\ u1 \in Seq(S) /\ Len(u1) = 3 + Len(q) /\ u1[1] = c1
      /\ \A i \in 1 .. 2 + Len(q) : u1[i + 1] = u2[i]
  BY <1>3, <1>5, <1>7, ConcatProperties, ConsFacts
<1>9. PICK w : w = <<c1, c2, c3>>
  OBVIOUS
<1>w. w \in Seq(S) /\ Len(w) = 3 /\ w[1] = c1 /\ w[2] = c2 /\ w[3] = c3
  BY <1>9
<1>10. /\ v \in Seq(S) /\ Len(v) = 3 + Len(q)
       /\ \A i \in 1 .. 3 + Len(q) : v[i] = IF i <= 3 THEN w[i] ELSE q[i - 3]
  BY <1>4, <1>9, <1>w, ConcatProperties
<1>11. ASSUME NEW i \in 1 .. 3 + Len(q) PROVE v[i] = u1[i]
  <2>1. CASE i = 1
    BY <1>5, <1>8, <1>w, <1>10, <2>1
  <2>2. CASE i = 2
    <3>1. u1[2] = u2[1]
      BY <1>5, <1>8
    <3> QED BY <1>5, <1>7, <1>w, <1>10, <2>2, <3>1
  <2>3. CASE i = 3
    <3>1. u1[3] = u2[2] /\ u2[2] = u3[1]
      BY <1>5, <1>7, <1>8
    <3> QED BY <1>5, <1>6, <1>w, <1>10, <2>3, <3>1
  <2>4. CASE i > 3
    <3>1. PICK k \in 1 .. Len(q) : i = k + 3
      BY <1>5, <2>4
    <3>2. u3[k + 1] = q[k]
      BY <1>6
    <3>3. u2[(k + 1) + 1] = u3[k + 1]
      BY <1>5, <1>7
    <3>4. u1[((k + 1) + 1) + 1] = u2[(k + 1) + 1]
      BY <1>5, <1>8
    <3>5. u1[i] = q[k]
      BY <3>1, <3>2, <3>3, <3>4
    <3>6. v[i] = q[i - 3] /\ i - 3 = k
      BY <1>5, <1>10, <2>4, <3>1
    <3> QED BY <3>5, <3>6
  <2> QED BY <1>5, <2>1, <2>2, <2>3, <2>4
<1>12. v = u1
  BY <1>8, <1>10, <1>11, SeqEqual
<1> QED BY <1>1, <1>2, <1>3, <1>4, <1>12

LEMMA TwoCons ==
    ASSUME NEW S, NEW c1 \in S, NEW c2 \in S, NEW q \in Seq(S)
    PROVE  <<c1, c2>> \o q = <<c1>> \o (<<c2>> \o q)
<1>1. PICK u2 : u2 = <<c2>> \o q
  OBVIOUS
<1>2. PICK u1 : u1 = <<c1>> \o u2
  OBVIOUS
<1>3. PICK v : v = <<c1, c2>> \o q
  OBVIOUS
<1>4. Len(q) \in Nat
  OBVIOUS
<1>5. /\ u2 \in Seq(S) /\ Len(u2) = 1 + Len(q) /\ u2[1] = c2
      /\ \A i \in 1 .. Len(q) : u2[i + 1] = q[i]
  BY <1>1, <1>4, ConcatProperties, ConsFacts
<1>6. /\ u1 \in Seq(S) /\ Len(u1) = 2 + Len(q) /\ u1[1] = c1
      /\ \A i \in 1 .. 1 + Len(q) : u1[i + 1] = u2[i]
  BY <1>2, <1>4, <1>5, ConcatProperties, ConsFacts
<1>7. PICK w : w = <<c1, c2>>
  OBVIOUS
<1>8. w \in Seq(S) /\ Len(w) = 2 /\ w[1] = c1 /\ w[2] = c2
  BY <1>7
<1>9. /\ v \in Seq(S) /\ Len(v) = 2 + Len(q)
      /\ \A i \in 1 .. 2 + Len(q) : v[i] = IF i <= 2 THEN w[i] ELSE q[i - 2]
  BY <1>3, <1>7, <1>8, ConcatProperties
<1>10. ASSUME NEW i \in 1 .. 2 + Len(q) PROVE v[i] = u1[i]
  <2>1. CASE i = 1
    BY <1>4, <1>6, <1>8, <1>9, <2>1
  <2>2. CASE i = 2
    <3>1. u1[2] = u2[1]
      BY <1>4, <1>6
    <3> QED BY <1>4, <1>5, <1>8, <1>9, <2>2, <3>1
  <2>3. CASE i > 2
    <3>1. PICK k \in 1 .. Len(q) : i = k + 2
      BY <1>4, <2>3
    <3>2. u2[k + 1] = q[k]
      BY <1>5
    <3>3. u1[(k + 1) + 1] = u2[k + 1]
      BY <1>4, <1>6
    <3>4. u1[i] = q[k]
      BY <3>1, <3>2, <3>3
    <3>5. v[i] = q[i - 2] /\ i - 2 = k
      BY <1>4, <1>9, <2>3, <3>1
    <3> QED BY <3>4, <3>5
  <2> QED BY <1>4, <2>1, <2>2, <2>3
<1>11. v = u1
  BY <1>6, <1>9, <1>10, SeqEqual
<1> QED BY <1>1, <1>2, <1>3, <1>11

LEMMA SafeThree ==
    ASSUME NEW c1 \in TrainerCalls, NEW c2 \in TrainerCalls, NEW c3 \in TrainerCalls,
           NEW f1 \in Forecasts, NEW f2, NEW f3, NEW f4, NEW q \in Seq(TrainerCalls), NEW a,
           f2 = After(c1, f1), f3 = After(c2, f2), f4 = After(c3, f3),
           Sound(f1), Allowed(c1, f1), Sound(f2), Allowed(c2, f2), Sound(f3), Allowed(c3, f3),
           Safe(q, f4, a)
    PROVE  Safe(<<c1, c2, c3>> \o q, f1, a)
<1>1. f2 \in Forecasts /\ f3 \in Forecasts
  BY AfterType
<1>2. Safe(<<c3>> \o q, f3, a)
  BY <1>1, SafeCons
<1>3. Safe(<<c2>> \o (<<c3>> \o q), f2, a)
  BY <1>1, <1>2, SafeCons
<1>4. Safe(<<c1>> \o (<<c2>> \o (<<c3>> \o q)), f1, a)
  BY <1>3, SafeCons
<1>5. <<c1, c2, c3>> \o q = <<c1>> \o (<<c2>> \o (<<c3>> \o q))
  BY ThreeCons
<1> QED BY <1>4, <1>5


LEMMA SafeTwo ==
    ASSUME NEW c1 \in TrainerCalls, NEW c2 \in TrainerCalls,
           NEW f1 \in Forecasts, NEW f2, NEW f3, NEW q \in Seq(TrainerCalls), NEW a,
           f2 = After(c1, f1), f3 = After(c2, f2),
           Sound(f1), Allowed(c1, f1), Sound(f2), Allowed(c2, f2),
           Safe(q, f3, a)
    PROVE  Safe(<<c1, c2>> \o q, f1, a)
<1>1. f2 \in Forecasts
  BY AfterType
<1>2. Safe(<<c2>> \o q, f2, a)
  BY <1>1, SafeCons
<1>3. Safe(<<c1>> \o (<<c2>> \o q), f1, a)
  BY <1>2, SafeCons
<1>4. <<c1, c2>> \o q = <<c1>> \o (<<c2>> \o q)
  BY TwoCons
<1> QED BY <1>3, <1>4

-----------------------------------------------------------------------------
(* The calls of a step are safe, piece by piece.                            *)

(* The hybrid servers are drained and neither registered nor updated yet.   *)
Trains(f) ==
    /\ f \in Forecasts /\ Sound(f)
    /\ f.reg = Standalone /\ f.paused \cap Standalone = {}
    /\ Hybrid \subseteq f.drained /\ f.fresh = {}

(* The standalone servers have the weights of this step.                    *)
Pushed(f) ==
    /\ f \in Forecasts /\ Sound(f)
    /\ f.reg = Standalone /\ f.paused \cap Standalone = {}
    /\ Hybrid \subseteq f.drained /\ Standalone \subseteq f.fresh

(* All servers are in the rollout, with the weights of this step.           *)
Serves(f) ==
    /\ f \in Forecasts /\ Sound(f)
    /\ f.reg = Servers /\ f.paused = {} /\ f.fresh = Servers

LEMMA DeactivateSafe ==
    ASSUME NEW f \in Forecasts, Sound(f), f.reg = Servers, f.paused = {}, f.fresh = {},
           Standalone \cap Hybrid = {}, Servers = Standalone \cup Hybrid
    PROVE  \E g : Trains(g) /\ \A q \in Seq(TrainerCalls) : \A a :
                                  Safe(q, g, a) => Safe(Deactivate \o q, f, a)
<1> DEFINE c1 == Calls("remove", Hybrid)  c2 == Calls("abort", Hybrid)  c3 == Calls("sleep", Hybrid)
           f2 == After(c1, f)  f3 == After(c2, f2)  f4 == After(c3, f3)
<1>1. /\ c1 \in TrainerCalls /\ c2 \in TrainerCalls /\ c3 \in TrainerCalls
      /\ c1.op = "remove" /\ c2.op = "abort" /\ c3.op = "sleep"
      /\ c1.on = Hybrid /\ c2.on = Hybrid /\ c3.on = Hybrid
  BY CallsType DEF Ops
<1>2. Deactivate = <<c1, c2, c3>>
  BY DEF Deactivate
<1> HIDE DEF c1, c2, c3
<1>3. /\ f2.reg = Standalone /\ f2.paused = {} /\ f2.awake = f.awake
      /\ f2.fresh = {} /\ f2.stale = f.stale /\ f2.drained = f.drained
  BY <1>1 DEF After, Forecasts
<1>4. f2 \in Forecasts
  BY <1>1, AfterType
<1>5. f3 = After(c2, f2) /\ f4 = After(c3, f3) /\ f2 = After(c1, f)
  OBVIOUS
<1> HIDE DEF f2, f3, f4
<1>6. /\ f3.reg = Standalone /\ f3.paused = Hybrid /\ f3.awake = f.awake
      /\ f3.fresh = {} /\ f3.stale = f.stale /\ f3.drained = f.drained \cup Hybrid
  BY <1>1, <1>3, <1>5 DEF After
<1>7. f3 \in Forecasts
  BY <1>1, <1>4, <1>5, AfterType
<1>8. /\ f4.reg = Standalone /\ f4.paused = Hybrid /\ f4.awake = f.awake \ Hybrid
      /\ f4.fresh = {} /\ f4.stale = f.stale /\ f4.drained = f.drained \cup Hybrid
  BY <1>1, <1>5, <1>6 DEF After
<1>9. f4 \in Forecasts
  BY <1>1, <1>5, <1>7, AfterType
<1>10. Sound(f2) /\ Sound(f3) /\ Sound(f4)
  BY <1>3, <1>6, <1>8 DEF Sound
<1>11. Allowed(c1, f) /\ Allowed(c2, f2) /\ Allowed(c3, f3)
  BY <1>1, <1>3, <1>6 DEF Allowed
<1>12. \A q \in Seq(TrainerCalls) : \A a : Safe(q, f4, a) => Safe(Deactivate \o q, f, a)
  BY <1>1, <1>2, <1>5, <1>10, <1>11, SafeThree
<1>13. Trains(f4)
  BY <1>8, <1>9, <1>10 DEF Trains
<1> QED BY <1>12, <1>13

LEMMA PushSafe ==
    ASSUME NEW f, Trains(f), Standalone \cap Hybrid = {}, Servers = Standalone \cup Hybrid
    PROVE  \E g : Pushed(g) /\ \A q \in Seq(TrainerCalls) : \A a :
                                  Safe(q, g, a) => Safe(Push \o q, f, a)
<1> DEFINE c1 == Calls("abort", Standalone)  c2 == Calls("update", Standalone)
           c3 == Calls("resume", Standalone)
           f2 == After(c1, f)  f3 == After(c2, f2)  f4 == After(c3, f3)
<1>1. /\ c1 \in TrainerCalls /\ c2 \in TrainerCalls /\ c3 \in TrainerCalls
      /\ c1.op = "abort" /\ c2.op = "update" /\ c3.op = "resume"
      /\ c1.on = Standalone /\ c2.on = Standalone /\ c3.on = Standalone
  BY CallsType DEF Ops
<1>2. Push = <<c1, c2, c3>>
  BY DEF Push
<1>5. f3 = After(c2, f2) /\ f4 = After(c3, f3) /\ f2 = After(c1, f)
  OBVIOUS
<1> HIDE DEF c1, c2, c3, f2, f3, f4
<1>0. /\ f \in Forecasts /\ Sound(f) /\ f.reg = Standalone
      /\ f.paused \cap Standalone = {} /\ Hybrid \subseteq f.drained /\ f.fresh = {}
  BY DEF Trains
<1>3. /\ f2.reg = Standalone /\ f2.paused = f.paused \cup Standalone /\ f2.awake = f.awake
      /\ f2.fresh = {} /\ f2.stale = f.stale /\ f2.drained = f.drained \cup Standalone
  BY <1>0, <1>1, <1>5 DEF After
<1>4. f2 \in Forecasts
  BY <1>0, <1>1, <1>5, AfterType
<1>6. /\ f3.reg = Standalone /\ f3.paused = f.paused \cup Standalone
      /\ f3.awake = f.awake \cup Standalone /\ f3.fresh = Standalone
      /\ f3.stale = f.stale \ Standalone /\ f3.drained = f.drained \cup Standalone
  BY <1>1, <1>3, <1>5 DEF After
<1>7. f3 \in Forecasts
  BY <1>1, <1>4, <1>5, AfterType
<1>8. /\ f4.reg = Standalone /\ f4.paused = (f.paused \cup Standalone) \ Standalone
      /\ f4.awake = f.awake \cup Standalone /\ f4.fresh = Standalone
      /\ f4.stale = f.stale \ Standalone
      /\ f4.drained = (f.drained \cup Standalone) \ Standalone
  BY <1>1, <1>5, <1>6 DEF After
<1>9. f4 \in Forecasts
  BY <1>1, <1>5, <1>7, AfterType
<1>10. Sound(f2) /\ Sound(f3) /\ Sound(f4)
  BY <1>0, <1>3, <1>6, <1>8 DEF Sound
<1>11. Allowed(c1, f) /\ Allowed(c2, f2) /\ Allowed(c3, f3)
  BY <1>1, <1>3, <1>6 DEF Allowed
<1>12. \A q \in Seq(TrainerCalls) : \A a : Safe(q, f4, a) => Safe(Push \o q, f, a)
  BY <1>0, <1>1, <1>2, <1>5, <1>10, <1>11, SafeThree
<1>13. Pushed(f4)
  BY <1>0, <1>8, <1>9, <1>10 DEF Pushed
<1> QED BY <1>12, <1>13

LEMMA SwitchSafe ==
    ASSUME NEW f, Pushed(f), Standalone \cap Hybrid = {}, Servers = Standalone \cup Hybrid
    PROVE  \E g : Serves(g) /\ \A q \in Seq(TrainerCalls) : \A a :
                                  Safe(q, g, a) => Safe(SwitchToRollout \o q, f, a)
<1> DEFINE c1 == Calls("update", Hybrid)  c2 == Calls("resume", Hybrid)  c3 == Calls("add", Hybrid)
           f2 == After(c1, f)  f3 == After(c2, f2)  f4 == After(c3, f3)
<1>1. /\ c1 \in TrainerCalls /\ c2 \in TrainerCalls /\ c3 \in TrainerCalls
      /\ c1.op = "update" /\ c2.op = "resume" /\ c3.op = "add"
      /\ c1.on = Hybrid /\ c2.on = Hybrid /\ c3.on = Hybrid
  BY CallsType DEF Ops
<1>2. SwitchToRollout = <<c1, c2, c3>>
  BY DEF SwitchToRollout
<1>3. f2 = After(c1, f) /\ f3 = After(c2, f2) /\ f4 = After(c3, f3)
  OBVIOUS
<1> HIDE DEF c1, c2, c3, f2, f3, f4
<1>4. /\ f \in Forecasts /\ Sound(f) /\ f.reg = Standalone
      /\ f.paused \cap Standalone = {} /\ Hybrid \subseteq f.drained /\ Standalone \subseteq f.fresh
  BY DEF Pushed
<1>5. f2 \in Forecasts /\ f3 \in Forecasts /\ f4 \in Forecasts
  BY <1>1, <1>3, <1>4, AfterType
<1>6. /\ f2.reg = Standalone /\ f2.paused = f.paused /\ f2.awake = f.awake \cup Hybrid
      /\ f2.fresh = f.fresh \cup Hybrid /\ f2.drained = f.drained
  BY <1>1, <1>3, <1>4 DEF After
<1>7. /\ f3.reg = Standalone /\ f3.paused = f.paused \ Hybrid /\ f3.awake = f.awake \cup Hybrid
      /\ f3.fresh = f.fresh \cup Hybrid /\ f3.drained = f.drained \ Hybrid
  BY <1>1, <1>3, <1>6 DEF After
<1>8. /\ f4.reg = Standalone \cup Hybrid /\ f4.paused = f.paused \ Hybrid
      /\ f4.awake = f.awake \cup Hybrid /\ f4.fresh = f.fresh \cup Hybrid
  BY <1>1, <1>3, <1>7 DEF After
<1>9. Servers \subseteq f.fresh \cup Hybrid /\ Servers \subseteq f.awake \cup Hybrid
  BY <1>4 DEF Sound
<1>10. Sound(f2) /\ Sound(f3) /\ Sound(f4)
  BY <1>6, <1>7, <1>8, <1>9 DEF Sound
<1>11. Allowed(c1, f) /\ Allowed(c2, f2) /\ Allowed(c3, f3)
  BY <1>1, <1>4, <1>6, <1>7 DEF Allowed
<1>12. \A q \in Seq(TrainerCalls) : \A a : Safe(q, f4, a) => Safe(SwitchToRollout \o q, f, a)
  BY <1>1, <1>2, <1>3, <1>4, <1>10, <1>11, SafeThree
<1>13. Serves(f4)
  <2>1. f4.paused = {} /\ f4.fresh = Servers
    BY <1>4, <1>5, <1>8, <1>9 DEF Forecasts
  <2> QED BY <1>5, <1>8, <1>10, <2>1 DEF Serves
<1> QED BY <1>12, <1>13

LEMMA SyncSafe ==
    ASSUME NEW f, Pushed(f), Standalone \cap Hybrid = {}, Servers = Standalone \cup Hybrid
    PROVE  \E g : /\ g \in Forecasts /\ Sound(g) /\ g.reg = Standalone /\ g.paused = {}
                  /\ g.fresh = Servers /\ g.awake = Servers
                  /\ \A q \in Seq(TrainerCalls) : \A a :
                       Safe(q, g, a) =>
                         Safe(<<Calls("abort", Hybrid), Calls("update", Hybrid),
                                Calls("resume", Hybrid)>> \o q, f, a)
<1> DEFINE c1 == Calls("abort", Hybrid)  c2 == Calls("update", Hybrid)  c3 == Calls("resume", Hybrid)
           f2 == After(c1, f)  f3 == After(c2, f2)  f4 == After(c3, f3)
<1>1. /\ c1 \in TrainerCalls /\ c2 \in TrainerCalls /\ c3 \in TrainerCalls
      /\ c1.op = "abort" /\ c2.op = "update" /\ c3.op = "resume"
      /\ c1.on = Hybrid /\ c2.on = Hybrid /\ c3.on = Hybrid
  BY CallsType DEF Ops
<1>3. f2 = After(c1, f) /\ f3 = After(c2, f2) /\ f4 = After(c3, f3)
  OBVIOUS
<1> SUFFICES \E g : /\ g \in Forecasts /\ Sound(g) /\ g.reg = Standalone /\ g.paused = {}
                    /\ g.fresh = Servers /\ g.awake = Servers
                    /\ \A q \in Seq(TrainerCalls) : \A a :
                          Safe(q, g, a) => Safe(<<c1, c2, c3>> \o q, f, a)
  OBVIOUS
<1> HIDE DEF c1, c2, c3, f2, f3, f4
<1>4. /\ f \in Forecasts /\ Sound(f) /\ f.reg = Standalone
      /\ f.paused \cap Standalone = {} /\ Hybrid \subseteq f.drained /\ Standalone \subseteq f.fresh
  BY DEF Pushed
<1>5. f2 \in Forecasts /\ f3 \in Forecasts /\ f4 \in Forecasts
  BY <1>1, <1>3, <1>4, AfterType
<1>6. /\ f2.reg = Standalone /\ f2.paused = f.paused \cup Hybrid /\ f2.awake = f.awake
      /\ f2.fresh = f.fresh /\ f2.stale = f.stale /\ f2.drained = f.drained \cup Hybrid
  BY <1>1, <1>3, <1>4 DEF After
<1>7. /\ f3.reg = Standalone /\ f3.paused = f.paused \cup Hybrid /\ f3.awake = f.awake \cup Hybrid
      /\ f3.fresh = f.fresh \cup Hybrid /\ f3.drained = f.drained \cup Hybrid
  BY <1>1, <1>3, <1>6 DEF After
<1>8. /\ f4.reg = Standalone /\ f4.paused = (f.paused \cup Hybrid) \ Hybrid
      /\ f4.awake = f.awake \cup Hybrid /\ f4.fresh = f.fresh \cup Hybrid
  BY <1>1, <1>3, <1>7 DEF After
<1>9. Servers \subseteq f.fresh \cup Hybrid /\ Servers \subseteq f.awake \cup Hybrid
  BY <1>4 DEF Sound
<1>10. Sound(f2) /\ Sound(f3) /\ Sound(f4)
  BY <1>4, <1>6, <1>7, <1>8, <1>9 DEF Sound
<1>11. Allowed(c1, f) /\ Allowed(c2, f2) /\ Allowed(c3, f3)
  BY <1>1, <1>4, <1>6, <1>7 DEF Allowed
<1>12. \A q \in Seq(TrainerCalls) : \A a : Safe(q, f4, a) => Safe(<<c1, c2, c3>> \o q, f, a)
  BY <1>1, <1>3, <1>4, <1>10, <1>11, SafeThree
<1>13. f4.paused = {} /\ f4.fresh = Servers /\ f4.awake = Servers
  BY <1>4, <1>5, <1>8, <1>9 DEF Forecasts
<1> QED BY <1>5, <1>8, <1>10, <1>12, <1>13

LEMMA AddSafe ==
    ASSUME NEW f \in Forecasts, Sound(f), f.reg = Standalone, f.paused = {}, f.fresh = Servers,
           f.awake = Servers, Standalone \cap Hybrid = {}, Servers = Standalone \cup Hybrid
    PROVE  \E g : Serves(g) /\ \A q \in Seq(TrainerCalls) : \A a :
                      Safe(q, g, a) =>
                        Safe(<<Calls("add", Hybrid), Calls("resume", Hybrid)>> \o q, f, a)
<1> DEFINE c1 == Calls("add", Hybrid)  c2 == Calls("resume", Hybrid)
           f2 == After(c1, f)  f3 == After(c2, f2)
<1>1. /\ c1 \in TrainerCalls /\ c2 \in TrainerCalls
      /\ c1.op = "add" /\ c2.op = "resume" /\ c1.on = Hybrid /\ c2.on = Hybrid
  BY CallsType DEF Ops
<1>2. f2 = After(c1, f) /\ f3 = After(c2, f2)
  OBVIOUS
<1> SUFFICES \E g : Serves(g) /\ \A q \in Seq(TrainerCalls) : \A a :
                          Safe(q, g, a) => Safe(<<c1, c2>> \o q, f, a)
  OBVIOUS
<1> HIDE DEF c1, c2, f2, f3
<1>3. f2 \in Forecasts /\ f3 \in Forecasts
  BY <1>1, <1>2, AfterType
<1>4. /\ f2.reg = Servers /\ f2.paused = {} /\ f2.awake = Servers /\ f2.fresh = Servers
  BY <1>1, <1>2 DEF After
<1>5. /\ f3.reg = Servers /\ f3.paused = {} /\ f3.awake = Servers /\ f3.fresh = Servers
  BY <1>1, <1>2, <1>4 DEF After
<1>6. Sound(f2) /\ Sound(f3)
  BY <1>4, <1>5 DEF Sound
<1>7. Allowed(c1, f) /\ Allowed(c2, f2)
  BY <1>1, <1>4 DEF Allowed
<1>8. \A q \in Seq(TrainerCalls) : \A a : Safe(q, f3, a) => Safe(<<c1, c2>> \o q, f, a)
  BY <1>1, <1>2, <1>6, <1>7, SafeTwo
<1>9. Serves(f3)
  BY <1>3, <1>5, <1>6 DEF Serves
<1> QED BY <1>8, <1>9

LEMMA RebalanceSafe ==
    ASSUME NEW f, Serves(f)
    PROVE  \E g : Serves(g) /\ \A q \in Seq(TrainerCalls) : \A a :
                                  Safe(q, g, a) => Safe(Rebalance \o q, f, a)
<1> DEFINE c1 == Calls("clear", Servers)  c2 == Calls("abort", Servers)
           c3 == Calls("resume", Servers)
           f2 == After(c1, f)  f3 == After(c2, f2)  f4 == After(c3, f3)
<1>1. /\ c1 \in TrainerCalls /\ c2 \in TrainerCalls /\ c3 \in TrainerCalls
      /\ c1.op = "clear" /\ c2.op = "abort" /\ c3.op = "resume"
      /\ c1.on = Servers /\ c2.on = Servers /\ c3.on = Servers
  BY CallsType DEF Ops
<1>2. Rebalance = <<c1, c2, c3>>
  BY DEF Rebalance
<1>3. f2 = After(c1, f) /\ f3 = After(c2, f2) /\ f4 = After(c3, f3)
  OBVIOUS
<1> HIDE DEF c1, c2, c3, f2, f3, f4
<1>4. /\ f \in Forecasts /\ Sound(f) /\ f.reg = Servers /\ f.paused = {} /\ f.fresh = Servers
      /\ f.awake = Servers
  BY DEF Serves, Sound, Forecasts
<1>5. f2 \in Forecasts /\ f3 \in Forecasts /\ f4 \in Forecasts
  BY <1>1, <1>3, <1>4, AfterType
<1>6. f2.reg = Servers /\ f2.paused = {} /\ f2.awake = Servers /\ f2.fresh = Servers
  BY <1>1, <1>3, <1>4 DEF After
<1>7. f3.reg = Servers /\ f3.awake = Servers /\ f3.fresh = Servers /\ f3.paused = Servers
  BY <1>1, <1>3, <1>6 DEF After
<1>8. f4.reg = Servers /\ f4.paused = {} /\ f4.awake = Servers /\ f4.fresh = Servers
  BY <1>1, <1>3, <1>7 DEF After
<1>9. Sound(f2) /\ Sound(f3) /\ Sound(f4)
  BY <1>6, <1>7, <1>8 DEF Sound
<1>10. Allowed(c1, f) /\ Allowed(c2, f2) /\ Allowed(c3, f3)
  BY <1>1, <1>4, <1>6, <1>7 DEF Allowed
<1>11. \A q \in Seq(TrainerCalls) : \A a : Safe(q, f4, a) => Safe(Rebalance \o q, f, a)
  BY <1>1, <1>2, <1>3, <1>4, <1>9, <1>10, SafeThree
<1>12. Serves(f4)
  BY <1>5, <1>8, <1>9 DEF Serves
<1> QED BY <1>11, <1>12

(* A whole step is safe, except with the validation, which resumes servers  *)
(* that sleep.                                                              *)
LEMMA CycleSafe ==
    ASSUME conf \in Configs, conf.control # "validate", active \in BOOLEAN,
           NEW f \in Forecasts, Sound(f), f.fresh = {}, f.reg \cap f.paused = {},
           f.reg = IF active THEN Servers ELSE Standalone, Servers \ f.reg \subseteq f.drained,
           NEW activate \in BOOLEAN
    PROVE  Safe(Cycle(activate), f, activate)
<1>1. /\ Standalone \cap Hybrid = {} /\ Servers = Standalone \cup Hybrid
      /\ conf.control \in {"separate", "dynamic"}
  BY ConfFacts
<1> DEFINE first == IF active THEN Deactivate ELSE <<>>
           last == IF ~activate THEN <<>>
                   ELSE IF conf.control = "separate" THEN SwitchToRollout ELSE Activate
<1>2. /\ first \in Seq(TrainerCalls) /\ last \in Seq(TrainerCalls)
      /\ Push \in Seq(TrainerCalls) /\ Push \o last \in Seq(TrainerCalls)
      /\ <<>> \in Seq(TrainerCalls)
  <2>1. <<>> \in Seq(TrainerCalls)
    OBVIOUS
  <2>2. first \in Seq(TrainerCalls) /\ last \in Seq(TrainerCalls)
    BY <2>1, PieceTypes
  <2> HIDE DEF first, last
  <2> QED BY <2>1, <2>2, PieceTypes
<1>3. Cycle(activate) = first \o (Push \o last)
  <2>1. Cycle(activate) = (first \o Push) \o last
    BY <1>1 DEF Cycle
  <2> HIDE DEF first, last
  <2> QED BY <1>2, <2>1, ConcatAssociative
<1>4. \E g : Trains(g) /\ \A q \in Seq(TrainerCalls) : \A a : Safe(q, g, a) => Safe(first \o q, f, a)
  <2>1. CASE active
    <3>1. f.reg = Servers /\ f.paused = {}
      BY <2>1 DEF Forecasts
    <3> QED BY <1>1, <2>1, <3>1, DeactivateSafe
  <2>2. CASE ~active
    <3>1. Trains(f)
      BY <1>1, <2>2 DEF Trains
    <3>2. \A q \in Seq(TrainerCalls) : first \o q = q
      BY <2>2
    <3> QED BY <3>1, <3>2
  <2> QED BY <2>1, <2>2
<1>5. PICK g1 : Trains(g1) /\ \A q \in Seq(TrainerCalls) : \A a : Safe(q, g1, a) => Safe(first \o q, f, a)
  BY <1>4
<1>6. PICK g2 : Pushed(g2) /\ \A q \in Seq(TrainerCalls) : \A a : Safe(q, g2, a) => Safe(Push \o q, g1, a)
  BY <1>1, <1>5, PushSafe
<1>7. \A g : Serves(g) => Safe(<<>>, g, TRUE)
  <2> SUFFICES ASSUME NEW g, Serves(g) PROVE Safe(<<>>, g, TRUE)
    OBVIOUS
  <2>1. g \in Forecasts /\ Sound(g) /\ Settled(g, TRUE)
    BY DEF Serves, Settled
  <2> QED BY <2>1, SafeEmpty
<1>8. Safe(last, g2, activate)
  <2>1. CASE ~activate
    <3>1. g2 \in Forecasts /\ Sound(g2) /\ Settled(g2, FALSE)
      BY <1>1 , <1>6 DEF Pushed, Settled
    <3>2. Safe(<<>>, g2, FALSE)
      BY <3>1, SafeEmpty
    <3> QED BY <2>1, <3>2
  <2>2. CASE activate /\ conf.control = "separate"
    <3>1. PICK g3 : Serves(g3) /\ \A q \in Seq(TrainerCalls) : \A a :
                        Safe(q, g3, a) => Safe(SwitchToRollout \o q, g2, a)
      BY <1>1, <1>6, SwitchSafe
    <3>2. Safe(SwitchToRollout \o <<>>, g2, TRUE)
      BY <1>2, <1>7, <3>1
    <3>3. SwitchToRollout \o <<>> = SwitchToRollout
      BY PieceTypes, ConcatEmptySeq
    <3> QED BY <2>2, <3>2, <3>3
  <2>3. CASE activate /\ conf.control = "dynamic"
    <3> DEFINE sync == <<Calls("abort", Hybrid), Calls("update", Hybrid), Calls("resume", Hybrid)>>
               add == <<Calls("add", Hybrid), Calls("resume", Hybrid)>>
               end == IF conf.rebalance THEN Rebalance ELSE <<>>
    <3>1. sync \in Seq(TrainerCalls) /\ add \in Seq(TrainerCalls) /\ end \in Seq(TrainerCalls)
      <4>1. /\ Calls("abort", Hybrid) \in TrainerCalls /\ Calls("update", Hybrid) \in TrainerCalls
            /\ Calls("resume", Hybrid) \in TrainerCalls /\ Calls("add", Hybrid) \in TrainerCalls
        BY CallsType DEF Ops
      <4> QED BY <1>2, <4>1, PieceTypes
    <3>2. Activate = (sync \o add) \o end
      BY DEF Activate
    <3>3. PICK g3 : /\ g3 \in Forecasts /\ Sound(g3) /\ g3.reg = Standalone /\ g3.paused = {}
                    /\ g3.fresh = Servers /\ g3.awake = Servers
                    /\ \A q \in Seq(TrainerCalls) : \A a : Safe(q, g3, a) => Safe(sync \o q, g2, a)
      BY <1>1, <1>6, SyncSafe
    <3>4. PICK g4 : Serves(g4) /\ \A q \in Seq(TrainerCalls) : \A a :
                        Safe(q, g4, a) => Safe(add \o q, g3, a)
      BY <1>1, <3>3, AddSafe
    <3>5. Safe(end, g4, TRUE)
      <4>1. CASE conf.rebalance
        <5>1. PICK g5 : Serves(g5) /\ \A q \in Seq(TrainerCalls) : \A a :
                            Safe(q, g5, a) => Safe(Rebalance \o q, g4, a)
          BY <3>4, RebalanceSafe
        <5>2. Safe(Rebalance \o <<>>, g4, TRUE)
          BY <1>2, <1>7, <5>1
        <5>3. Rebalance \o <<>> = Rebalance
          BY PieceTypes, ConcatEmptySeq
        <5> QED BY <4>1, <5>2, <5>3
      <4>2. CASE ~conf.rebalance
        BY <1>7, <3>4, <4>2
      <4> QED BY <4>1, <4>2
    <3> HIDE DEF sync, add, end
    <3>6. Safe(add \o end, g3, TRUE)
      BY <3>1, <3>4, <3>5
    <3>7. add \o end \in Seq(TrainerCalls)
      BY <3>1
    <3>8. Safe(sync \o (add \o end), g2, TRUE)
      BY <3>3, <3>6, <3>7
    <3>9. Activate = sync \o (add \o end)
      <4>1. (sync \o add) \o end = sync \o (add \o end)
        BY ONLY <3>1, ConcatAssociative
      <4> QED BY <3>2, <4>1
    <3> QED BY <2>3, <3>8, <3>9
  <2> QED BY <1>1, <2>1, <2>2, <2>3
<1> HIDE DEF first, last
<1>9. Safe(Push \o last, g1, activate)
  BY <1>2, <1>6, <1>8
<1>10. Safe(first \o (Push \o last), f, activate)
  BY <1>2, <1>5, <1>9
<1> QED BY <1>3, <1>10

-----------------------------------------------------------------------------
(* The invariant: the calls still to come are safe on the servers as they   *)
(* are.                                                                     *)

(* No call generates at s, nor can one begin to.                            *)
Drained(s) ==
    /\ paused[s] \/ s \notin DOMAIN inflight
    /\ \A r \in Requests :
          call[r].at = s => call[r].stage = "back" \/ (call[r].stage = "sent" /\ paused[s])

Describes(f) ==
    /\ f.reg = DOMAIN inflight
    /\ \A s \in Servers : /\ s \in f.paused <=> paused[s]
                          /\ s \in f.awake <=> awake[s]
                          /\ s \in f.fresh => version[s] = step
                          /\ s \in f.stale => version[s] = step - 1
                          /\ s \in f.drained => Drained(s)

Known(c) == c.lo <= LastStep

(* A call that is continued meets no version older than it has had.         *)
Ahead(f) ==
    \A r \in Requests : Known(call[r]) =>
        \A s \in Servers \ f.drained : call[r].hi <= version[s]

ServeInv == \E f : Describes(f) /\ Ahead(f) /\ Safe(script, f, active)

(* Tokens made by a version the span does not enclose yet are of the        *)
(* attempt that runs.                                                       *)
SpanInv ==
    /\ \A s \in Servers : version[s] <= step
    /\ \A r \in Requests :
          /\ Known(call[r]) => call[r].lo <= call[r].hi /\ call[r].hi <= step
          /\ \A v \in call[r].by :
                \/ Known(call[r]) /\ call[r].lo <= v /\ v <= call[r].hi
                \/ call[r].stage = "running" /\ v = version[call[r].at]

NoValidation == \A c \in Configs : c.control # "validate"

LEMMA SafeNext ==
    ASSUME [Next]_vars, NEW q, NEW f, NEW a, Safe(q, f, a), script' = q, active' = a
    PROVE  Safe(script, f, active)'
<1>1. Servers' = Servers /\ Standalone' = Standalone /\ TrainerCalls' = TrainerCalls
  BY ConfKept
<1>2. Forecasts' = Forecasts
  BY <1>1 DEF Forecasts
<1>3. ASSUME NEW q1, NEW f1, Good(q1, f1, a) PROVE Good(q1, f1, active)'
  <2>1. Sound(f1)'
    BY <1>1, <1>3 DEF Good, Sound
  <2>2. q1 = <<>> => Settled(f1, active)'
    BY <1>1, <1>3 DEF Good, Settled
  <2> QED BY <1>1, <1>2, <1>3, <2>1, <2>2 DEF Good, Allowed, Resumes
<1>4. PICK P : Closed(P, a) /\ <<q, f>> \in P
  BY DEF Safe
<1>5. Closed(P, active)'
  BY <1>3, <1>4 DEF Closed, After
<1> QED BY <1>4, <1>5 DEF Safe

(* Where a call runs.                                                       *)
LEMMA RunningServes ==
    ASSUME BaseInv, NEW f, Describes(f), Safe(script, f, active),
           NEW r \in Requests, call[r].stage = "running"
    PROVE  LET s == call[r].at
           IN  /\ s \in Servers \ f.drained /\ awake[s]
               /\ \A t \in Servers \ f.drained : version[t] = version[s]
<1>1. f \in Forecasts /\ Sound(f)
  BY SafeTail DEF Good
<1>2. call[r].at \in Servers /\ call[r].at \notin f.drained
  BY DEF BaseInv, TypeInv, StageInv, CallType, Describes, Drained
<1>3. awake[call[r].at]
  BY <1>1, <1>2 DEF Sound, Describes
<1>4. \A t \in Servers \ f.drained : version[t] = version[call[r].at]
  BY <1>1, <1>2 DEF Sound, Describes
<1> QED BY <1>2, <1>3, <1>4

LEMMA ClientDrained ==
    ASSUME BaseInv, NEW r \in Requests, Client(r), NEW s \in Servers, Drained(s)
    PROVE  Drained(s)'
<1>1. /\ call \in [Requests -> CallType] /\ NoServer \notin Servers /\ paused' = paused
      /\ DOMAIN inflight' = DOMAIN inflight
  BY ConfFacts DEF BaseInv, TypeInv, Client, Acquire, Arrive, Emit, Complete, Receive, Release,
                   serverVars, balancerVars
<1>2. CASE Acquire(r)
  <2>1. PICK t \in Choices(r) : call' = [call EXCEPT ![r].stage = "sent", ![r].at = t]
    BY <1>2 DEF Acquire
  <2>2. t \in DOMAIN inflight /\ call'[r].stage = "sent" /\ call'[r].at = t
        /\ \A q \in Requests \ {r} : call'[q] = call[q]
    BY <1>1, <2>1, ChoicesFacts DEF CallType
  <2> QED BY <1>1, <2>2 DEF Drained
<1>3. CASE Arrive(r)
  <2>1. call[r].at # s /\ call' = [call EXCEPT ![r].stage = "running"]
    BY <1>3 DEF Arrive, Drained
  <2>2. call'[r].at = call[r].at /\ \A q \in Requests \ {r} : call'[q] = call[q]
    BY <1>1, <2>1 DEF CallType
  <2> QED BY <1>1, <2>1, <2>2 DEF Drained
<1>4. CASE Emit(r)
  <2>1. call[r].at # s
    BY <1>4 DEF Emit, Drained
  <2>2. call'[r].at = call[r].at /\ \A q \in Requests \ {r} : call'[q] = call[q]
    BY <1>1, <1>4 DEF Emit, CallType
  <2> QED BY <1>1, <2>1, <2>2 DEF Drained
<1>5. CASE Complete(r)
  <2>1. call[r].stage = "running" /\ call' = [call EXCEPT ![r] = Answer(call[r], FALSE)]
    BY <1>5 DEF Complete
  <2>2. call[r].at # s /\ Answer(call[r], FALSE).at = call[r].at
    BY <2>1, AnswerFacts DEF Drained
  <2>3. call'[r].at = call[r].at /\ \A q \in Requests \ {r} : call'[q] = call[q]
    BY <1>1, <2>1, <2>2
  <2> QED BY <1>1, <2>2, <2>3 DEF Drained
<1>6. CASE Receive(r)
  <2>1. call'[r].at = NoServer /\ \A q \in Requests \ {r} : call'[q] = call[q]
    BY <1>1, <1>6 DEF Receive, CallType
  <2> QED BY <1>1, <2>1 DEF Drained
<1>7. CASE Release(r)
  BY <1>1, <1>7 DEF Release, Drained
<1> QED BY <1>2, <1>3, <1>4, <1>5, <1>6, <1>7 DEF Client

LEMMA ClientServes ==
    ASSUME BaseInv, SpanInv, NEW f, Describes(f), Ahead(f), Safe(script, f, active),
           NEW r \in Requests, Client(r)
    PROVE  SpanInv' /\ ServeInv'
<1>1. /\ call \in [Requests -> CallType] /\ NoServer \notin Servers
      /\ LastStep \in Nat /\ step \in 0 .. LastStep
      /\ \A s \in Servers : version[s] \in 0 .. LastStep
  BY ConfFacts DEF BaseInv, TypeInv, Versions
<1>2. /\ paused' = paused /\ awake' = awake /\ version' = version /\ step' = step
      /\ script' = script /\ active' = active /\ DOMAIN inflight' = DOMAIN inflight
  BY DEF Client, Acquire, Arrive, Emit, Complete, Receive, Release,
         serverVars, balancerVars, trainerVars
<1>3. [Next]_vars
  BY DEF Next
<1>4. Servers' = Servers /\ LastStep' = LastStep
  BY <1>3, ConfKept
<1>5. Describes(f)'
  BY <1>2, <1>4, ClientDrained DEF Describes
<1>6. Safe(script, f, active)'
  BY <1>2, <1>3, SafeNext
<1>7. SpanInv' /\ Ahead(f)'
  <2>1. CASE Acquire(r) \/ Arrive(r) \/ Receive(r) \/ Release(r)
    <3>1. \A q \in Requests : /\ call'[q].lo = call[q].lo /\ call'[q].hi = call[q].hi
                              /\ call'[q].by = call[q].by
                              /\ call[q].stage = "running" =>
                                   call'[q].stage = "running" /\ call'[q].at = call[q].at
      <4>1. CASE Acquire(r)
        BY <1>1, <4>1 DEF Acquire, CallType
      <4>2. CASE Arrive(r)
        BY <1>1, <4>2 DEF Arrive, CallType
      <4>3. CASE Receive(r)
        BY <1>1, <4>3 DEF Receive, CallType
      <4>4. CASE Release(r)
        BY <4>4 DEF Release
      <4> QED BY <2>1, <4>1, <4>2, <4>3, <4>4
    <3> QED BY <1>2, <1>4, <3>1 DEF SpanInv, Ahead, Known
  <2>2. CASE Emit(r)
    <3>1. /\ call[r].stage = "running"
          /\ \A q \in Requests : /\ call'[q].lo = call[q].lo /\ call'[q].hi = call[q].hi
                                 /\ call'[q].stage = call[q].stage /\ call'[q].at = call[q].at
          /\ call'[r].by = call[r].by \cup {version[call[r].at]}
          /\ \A q \in Requests \ {r} : call'[q].by = call[q].by
      BY <1>1, <2>2 DEF Emit, CallType
    <3> QED BY <1>2, <1>4, <3>1 DEF SpanInv, Ahead, Known
  <2>3. CASE Complete(r)
    <3> DEFINE s == call[r].at  c == Answer(call[r], FALSE)
    <3>1. call[r].stage = "running" /\ call' = [call EXCEPT ![r] = c]
      BY <2>3 DEF Complete
    <3>2. /\ c.by = call[r].by /\ c.hi = version[s] /\ s \in Servers \ f.drained
          /\ c.lo = IF call[r].lo > LastStep THEN version[s] ELSE call[r].lo
          /\ \A t \in Servers \ f.drained : version[t] = version[s]
      <4>1. /\ c.by = call[r].by /\ c.at = s /\ c.hi = version[c.at]
            /\ c.lo = IF call[r].lo > LastStep THEN version[c.at] ELSE call[r].lo
        BY <3>1, AnswerFacts
      <4>2. /\ s \in Servers \ f.drained
            /\ \A t \in Servers \ f.drained : version[t] = version[s]
        BY <3>1, RunningServes
      <4> HIDE DEF c, s
      <4> QED BY <4>1, <4>2
    <3>3. call'[r] = c /\ \A q \in Requests \ {r} : call'[q] = call[q]
      BY <1>1, <3>1
    <3>4. call[r].lo \in Nat /\ call[r].hi \in Nat /\ call[r].by \subseteq Nat /\ version[s] \in Nat
      BY <1>1, <3>2 DEF CallType, Versions
    <3>5. version[s] <= LastStep /\ version[s] <= step
      BY <1>1, <3>2 DEF SpanInv
    <3> HIDE DEF c, s
    <3>6. Known(call[r]) => call[r].lo <= call[r].hi /\ call[r].hi <= version[s]
      BY <3>2 DEF SpanInv, Ahead
    <3>7. c.lo <= c.hi /\ c.hi <= step
      BY <1>1, <3>2, <3>4, <3>5, <3>6 DEF Known
    <3>8. \A v \in c.by : c.lo <= v /\ v <= c.hi
      <4> TAKE v \in c.by
      <4>1. v \in Nat /\ v \in call[r].by
        BY <3>2, <3>4
      <4>2. CASE Known(call[r]) /\ call[r].lo <= v /\ v <= call[r].hi
        BY <1>1, <3>2, <3>4, <3>6, <4>1, <4>2 DEF Known
      <4>3. CASE v = version[call[r].at]
        BY <1>1, <3>2, <3>4, <3>6, <4>1, <4>3 DEF Known, s
      <4> QED BY <4>1, <4>2, <4>3 DEF SpanInv
    <3>9. Known(c)
      BY <1>1, <3>2, <3>4, <3>5 DEF Known
    <3>10. SpanInv'
      BY <1>2, <1>4, <3>3, <3>7, <3>8, <3>9 DEF SpanInv, Known
    <3>11. Ahead(f)'
      <4> SUFFICES ASSUME NEW q \in Requests, Known(call[q])', NEW t \in Servers \ f.drained
                   PROVE  call'[q].hi <= version[t]
        BY <1>2, <1>4 DEF Ahead
      <4>1. CASE q = r
        BY <3>2, <3>3, <3>4, <4>1
      <4>2. CASE q # r
        BY <1>4, <3>3, <4>2 DEF Ahead, Known
      <4> QED BY <4>1, <4>2
    <3> QED BY <3>10, <3>11
  <2> QED BY <2>1, <2>2, <2>3 DEF Client
<1> QED BY <1>5, <1>6, <1>7 DEF ServeInv

LEMMA StepServes ==
    ASSUME NoValidation, BaseInv, SpanInv, NEW f, Describes(f), Ahead(f), Safe(script, f, active), Step
    PROVE  SpanInv' /\ ServeInv'
<1>1. /\ script = <<>> /\ step' = step + 1 /\ UNCHANGED <<inflight, paused, awake, version, call>>
  BY DEF Step, balancerVars, serverVars
<1>2. PICK activate \in BOOLEAN :
          script' = Cycle(activate) /\ active' = (activate /\ conf.control # "validate")
  BY DEF Step
<1>3. /\ conf \in Configs /\ conf.control # "validate" /\ active \in BOOLEAN /\ step \in Nat
      /\ LastStep \in Nat
  BY ConfFacts DEF NoValidation, BaseInv, TypeInv, Versions
<1>4. active' = activate
  BY <1>2, <1>3
<1>5. [Next]_vars
  BY DEF Next, Trainer
<1>6. Servers' = Servers /\ LastStep' = LastStep
  BY <1>5, ConfKept
<1>7. f \in Forecasts /\ Sound(f) /\ Settled(f, active)
  BY <1>1, SafeTail DEF Good
<1> DEFINE g == [reg |-> f.reg, paused |-> f.paused, awake |-> f.awake,
                 fresh |-> {}, stale |-> f.fresh, drained |-> f.drained]
<1>8. /\ g \in Forecasts /\ g.reg = f.reg /\ g.paused = f.paused /\ g.awake = f.awake
      /\ g.fresh = {} /\ g.stale = f.fresh /\ g.drained = f.drained
  BY <1>7 DEF Forecasts
<1> HIDE DEF g
<1>9. Sound(g)
  BY <1>7, <1>8 DEF Sound, Settled
<1>10. Safe(Cycle(activate), g, activate)
  BY <1>3, <1>7, <1>8, <1>9, CycleSafe DEF Settled
<1>11. Safe(script, g, active)'
  BY <1>2, <1>4, <1>5, <1>10, SafeNext
<1>12. Describes(g)'
  <2> SUFFICES ASSUME NEW s \in Servers
               PROVE  /\ s \in g.paused <=> paused'[s]
                      /\ s \in g.awake <=> awake'[s]
                      /\ s \in g.fresh => version'[s] = step'
                      /\ s \in g.stale => version'[s] = step' - 1
                      /\ s \in g.drained => Drained(s)'
    BY <1>1, <1>6, <1>8 DEF Describes
  <2>1. s \in g.drained => Drained(s)'
    BY <1>1, <1>8 DEF Describes, Drained
  <2>2. s \in g.stale => version'[s] = step' - 1
    BY <1>1, <1>3, <1>8 DEF Describes
  <2> QED BY <1>1, <1>8, <2>1, <2>2 DEF Describes
<1>13. Ahead(g)'
  BY <1>1, <1>6, <1>8 DEF Ahead, Known
<1>14. SpanInv'
  <2>1. \A s \in Servers : version[s] \in Nat
    BY <1>3 DEF BaseInv, TypeInv, Versions
  <2>2. \A r \in Requests : call[r].hi \in Nat
    BY <1>3 DEF BaseInv, TypeInv, CallType
  <2> QED BY <1>1, <1>3, <1>6, <2>1, <2>2 DEF SpanInv, Known
<1> QED BY <1>11, <1>12, <1>13, <1>14 DEF ServeInv

LEMMA RouteServes ==
    ASSUME BaseInv, SpanInv, NEW f, Describes(f), Ahead(f), Safe(script, f, active), Route \/ Skip
    PROVE  SpanInv' /\ ServeInv'
<1> DEFINE h == Head(script)
<1>0. PICK g : g = After(h, f)
  OBVIOUS
<1>1. /\ script # <<>> /\ script' = Tail(script)
      /\ UNCHANGED <<paused, awake, version, call, step, active>>
  BY DEF Route, Skip, serverVars
<1>2. [Next]_vars
  BY DEF Next, Trainer
<1>3. Servers' = Servers /\ LastStep' = LastStep
  BY <1>2, ConfKept
<1>4. f \in Forecasts /\ Sound(f) /\ Allowed(h, f) /\ Safe(Tail(script), g, active)
  BY <1>0, <1>1, SafeTail DEF Good
<1>5. h \in TrainerCalls /\ h.on \subseteq Servers
  BY <1>1, HeadFacts DEF BaseInv
<1>6. \/ h.op = "add" /\ DOMAIN inflight' = DOMAIN inflight \cup h.on
      \/ h.op = "remove" /\ DOMAIN inflight' = DOMAIN inflight \ h.on
      \/ h.op = "clear" /\ DOMAIN inflight' = DOMAIN inflight
      \/ h.on = {} /\ DOMAIN inflight' = DOMAIN inflight
  BY DEF Route, Skip, balancerVars
<1> HIDE DEF h
<1>7. /\ g.paused = f.paused /\ g.awake = f.awake /\ g.fresh = f.fresh /\ g.stale = f.stale
      /\ g.reg = DOMAIN inflight'
      /\ g.drained = f.drained \ (IF h.op = "add" THEN h.on ELSE {})
  <2>1. f.reg = DOMAIN inflight
    BY DEF Describes
  <2> QED BY <1>0, <1>4, <1>6, <2>1 DEF After, Forecasts
<1>8. \A s \in Servers : s \in g.drained => Drained(s)'
  <2> SUFFICES ASSUME NEW s \in Servers, s \in g.drained PROVE Drained(s)'
    OBVIOUS
  <2>1. s \in f.drained /\ (h.op = "add" => s \notin h.on)
    BY <1>7
  <2>2. Drained(s) /\ (s \in DOMAIN inflight' => s \in DOMAIN inflight)
    BY <1>6, <2>1 DEF Describes
  <2> QED BY <1>1, <2>2 DEF Drained
<1>9. Describes(g)'
  BY <1>1, <1>3, <1>7, <1>8 DEF Describes
<1>10. Ahead(g)'
  <2> SUFFICES ASSUME NEW r \in Requests, Known(call[r]), NEW s \in Servers \ g.drained
               PROVE  call[r].hi <= version[s]
    BY <1>1, <1>3 DEF Ahead, Known
  <2>1. CASE s \in f.drained
    <3>1. s \in f.fresh
      BY <1>4, <1>7, <2>1 DEF Allowed
    <3> QED BY <3>1 DEF SpanInv, Describes
  <2>2. CASE s \notin f.drained
    BY <2>2 DEF Ahead
  <2> QED BY <2>1, <2>2
<1>11. SpanInv'
  BY <1>1, <1>3 DEF SpanInv, Known
<1>12. Safe(script, g, active)'
  BY <1>1, <1>2, <1>4, SafeNext
<1> QED BY <1>9, <1>10, <1>11, <1>12 DEF ServeInv

LEMMA ServeServes ==
    ASSUME BaseInv, SpanInv, NEW f, Describes(f), Ahead(f), Safe(script, f, active),
           NEW s \in Servers, Serve(s)
    PROVE  SpanInv' /\ ServeInv'
<1> DEFINE h == Head(script)  one == [op |-> h.op, on |-> {s}]
<1>0. PICK g : g = After(one, f)
  OBVIOUS
<1>1. /\ script # <<>> /\ s \in h.on
      /\ script' = IF h.on = {s} THEN Tail(script) ELSE <<[h EXCEPT !.on = @ \ {s}]>> \o Tail(script)
      /\ UNCHANGED <<conf, inflight, release, step, active>>
  BY DEF Serve, balancerVars
<1>2. \/ /\ h.op = "abort" /\ paused' = [paused EXCEPT ![s] = TRUE] /\ call' = Aborted(s)
         /\ UNCHANGED <<awake, version>>
      \/ /\ h.op = "resume" /\ paused' = [paused EXCEPT ![s] = FALSE]
         /\ UNCHANGED <<awake, version, call>>
      \/ /\ h.op = "update" /\ awake' = [awake EXCEPT ![s] = TRUE]
         /\ version' = [version EXCEPT ![s] = step] /\ UNCHANGED <<paused, call>>
      \/ /\ h.op = "sleep" /\ awake' = [awake EXCEPT ![s] = FALSE]
         /\ UNCHANGED <<paused, version, call>>
  BY DEF Serve
<1>3. [Next]_vars
  BY DEF Next, Trainer
<1>4. Servers' = Servers /\ LastStep' = LastStep
  BY <1>3, ConfKept
<1>5. f \in Forecasts /\ Sound(f) /\ Allowed(h, f)
  BY <1>1, SafeTail DEF Good
<1>6. Safe(script', g, active)
  BY <1>0, <1>1, <1>2, SafeShrunk
<1>7. Safe(script, g, active)'
  BY <1>1, <1>3, <1>6, SafeNext
<1>8. /\ call \in [Requests -> CallType] /\ NoServer \notin Servers
      /\ LastStep \in Nat /\ step \in 0 .. LastStep
      /\ \A t \in Servers : version[t] \in 0 .. LastStep
      /\ paused \in [Servers -> BOOLEAN] /\ awake \in [Servers -> BOOLEAN]
      /\ version \in [Servers -> Versions]
  BY ConfFacts DEF BaseInv, TypeInv, Versions
<1>9. one.op = h.op /\ one.on = {s}
  OBVIOUS
<1> HIDE DEF h, one
<1>10. CASE h.op = "abort"
  <2>1. /\ g.reg = f.reg /\ g.paused = f.paused \cup {s} /\ g.awake = f.awake
        /\ g.fresh = f.fresh /\ g.stale = f.stale /\ g.drained = f.drained \cup {s}
    BY <1>0, <1>5, <1>9, <1>10 DEF After, Forecasts
  <2>2. paused' = [paused EXCEPT ![s] = TRUE] /\ call' = Aborted(s) /\ UNCHANGED <<awake, version>>
    BY <1>2, <1>10
  <2>3. \A r \in Requests :
            call'[r] = IF call[r].stage = "running" /\ call[r].at = s
                       THEN Answer(call[r], TRUE) ELSE call[r]
    BY <2>2, AbortedFacts
  <2>4. ASSUME NEW r \in Requests, call[r].stage = "running", call[r].at = s
        PROVE  /\ call'[r].stage = "back" /\ call'[r].at = s /\ call'[r].by = call[r].by
               /\ call'[r].hi = version[s]
               /\ call'[r].lo = IF call[r].lo > LastStep THEN version[s] ELSE call[r].lo
               /\ s \in Servers \ f.drained
               /\ \A t \in Servers \ f.drained : version[t] = version[s]
    <3>1. call'[r] = Answer(call[r], TRUE)
      BY <2>3, <2>4
    <3> DEFINE c == Answer(call[r], TRUE)
    <3>2. /\ c.stage = "back" /\ c.at = call[r].at /\ c.by = call[r].by /\ c.hi = version[c.at]
          /\ c.lo = IF call[r].lo > LastStep THEN version[c.at] ELSE call[r].lo
      BY <2>4, AnswerFacts
    <3>3. /\ s \in Servers \ f.drained
          /\ \A t \in Servers \ f.drained : version[t] = version[s]
      BY <2>4, RunningServes
    <3> QED BY <2>4, <3>1, <3>2, <3>3
  <2>5. ASSUME NEW r \in Requests, ~(call[r].stage = "running" /\ call[r].at = s)
        PROVE  call'[r] = call[r]
    BY <2>3, <2>5
  <2>6. \A r \in Requests : call'[r].at = call[r].at
    BY <2>4, <2>5
  <2>7. Drained(s)'
    <3>1. \A r \in Requests : call[r].at = s =>
              call[r].stage \in {"sent", "running", "back"}
      BY <1>8 DEF BaseInv, StageInv, CallType
    <3>2. \A r \in Requests : call'[r].at = s => call'[r].stage \in {"sent", "back"}
      BY <2>4, <2>5, <2>6, <3>1
    <3>3. paused'[s] = TRUE
      BY <1>8, <2>2
    <3> QED BY <3>2, <3>3 DEF Drained
  <2>8. ASSUME NEW t \in Servers \ {s}, Drained(t) PROVE Drained(t)'
    <3>1. paused'[t] = paused[t]
      BY <1>8, <2>2
    <3>2. \A r \in Requests : call'[r].at = t => call'[r] = call[r]
      BY <2>5, <2>6
    <3> QED BY <1>1, <2>8, <3>1, <3>2 DEF Drained
  <2>9. Describes(g)'
    <3> SUFFICES ASSUME NEW t \in Servers
                 PROVE  /\ t \in g.paused <=> paused'[t]
                        /\ t \in g.awake <=> awake'[t]
                        /\ t \in g.fresh => version'[t] = step'
                        /\ t \in g.stale => version'[t] = step' - 1
                        /\ t \in g.drained => Drained(t)'
      BY <1>1, <1>4, <2>1 DEF Describes
    <3>1. t \in g.drained => Drained(t)'
      BY <2>1, <2>7, <2>8 DEF Describes
    <3>2. t \in g.paused <=> paused'[t]
      BY <1>8, <2>1, <2>2 DEF Describes
    <3> QED BY <1>1, <2>1, <2>2, <3>1, <3>2 DEF Describes
  <2>10. ASSUME NEW r \in Requests
         PROVE  /\ (call'[r].lo <= LastStep) => /\ call'[r].lo <= call'[r].hi /\ call'[r].hi <= step
                                       /\ \A t \in Servers \ g.drained : call'[r].hi <= version[t]
                /\ \A v \in call'[r].by :
                      \/ (call'[r].lo <= LastStep) /\ call'[r].lo <= v /\ v <= call'[r].hi
                      \/ call'[r].stage = "running" /\ v = version[call'[r].at]
    <3>1. CASE call[r].stage = "running" /\ call[r].at = s
      <4>1. /\ call'[r].by = call[r].by /\ call'[r].hi = version[s]
            /\ call'[r].lo = IF call[r].lo > LastStep THEN version[s] ELSE call[r].lo
            /\ s \in Servers \ f.drained
            /\ \A t \in Servers \ f.drained : version[t] = version[s]
        BY <2>4, <3>1
      <4>2. call[r].lo \in Nat /\ call[r].hi \in Nat /\ call[r].by \subseteq Nat /\ version[s] \in Nat
        BY <1>8 DEF CallType, Versions
      <4>3. version[s] <= LastStep /\ version[s] <= step
        BY <1>8 DEF SpanInv
      <4>4. Known(call[r]) => call[r].lo <= call[r].hi /\ call[r].hi <= version[s]
        BY <4>1 DEF SpanInv, Ahead
      <4>5. call'[r].lo <= call'[r].hi /\ call'[r].hi <= step /\ call'[r].lo <= LastStep
        BY <1>8, <4>1, <4>2, <4>3, <4>4 DEF Known
      <4>6. \A t \in Servers \ g.drained : call'[r].hi <= version[t]
        BY <2>1, <4>1, <4>2
      <4>7. \A v \in call[r].by : call'[r].lo <= v /\ v <= call'[r].hi
        <5> TAKE v \in call[r].by
        <5>1. v \in Nat
          BY <4>2
        <5>2. CASE Known(call[r]) /\ call[r].lo <= v /\ v <= call[r].hi
          BY <1>8, <4>1, <4>2, <4>4, <5>1, <5>2 DEF Known
        <5>3. CASE v = version[s]
          BY <1>8, <4>1, <4>2, <4>4, <5>1, <5>3 DEF Known
        <5> QED BY <3>1, <5>2, <5>3 DEF SpanInv
      <4> QED BY <1>4, <4>1, <4>5, <4>6, <4>7 DEF Known
    <3>2. CASE ~(call[r].stage = "running" /\ call[r].at = s)
      <4>1. call'[r] = call[r]
        BY <2>5, <3>2
      <4> QED BY <1>4, <2>1, <4>1 DEF SpanInv, Ahead, Known
    <3> QED BY <3>1, <3>2
  <2>11. SpanInv' /\ Ahead(g)'
    BY <1>1, <1>4, <2>2, <2>10 DEF SpanInv, Ahead, Known
  <2> QED BY <1>7, <2>9, <2>11 DEF ServeInv
<1>11. CASE h.op = "resume"
  <2>1. /\ g.reg = f.reg /\ g.paused = f.paused \ {s} /\ g.awake = f.awake
        /\ g.fresh = f.fresh /\ g.stale = f.stale /\ g.drained = f.drained \ {s}
        /\ s \in f.fresh
    BY <1>0, <1>1, <1>5, <1>9, <1>11 DEF After, Forecasts, Allowed
  <2>2. paused' = [paused EXCEPT ![s] = FALSE] /\ UNCHANGED <<awake, version, call>>
    BY <1>2, <1>11
  <2>3. ASSUME NEW t \in Servers \ {s}, Drained(t) PROVE Drained(t)'
    <3>1. paused'[t] = paused[t]
      BY <1>8, <2>2
    <3> QED BY <1>1, <2>2, <2>3, <3>1 DEF Drained
  <2>4. Describes(g)'
    <3> SUFFICES ASSUME NEW t \in Servers
                 PROVE  /\ t \in g.paused <=> paused'[t]
                        /\ t \in g.awake <=> awake'[t]
                        /\ t \in g.fresh => version'[t] = step'
                        /\ t \in g.stale => version'[t] = step' - 1
                        /\ t \in g.drained => Drained(t)'
      BY <1>1, <1>4, <2>1 DEF Describes
    <3>1. t \in g.drained => Drained(t)'
      BY <2>1, <2>3 DEF Describes
    <3>2. t \in g.paused <=> paused'[t]
      BY <1>8, <2>1, <2>2 DEF Describes
    <3> QED BY <1>1, <2>1, <2>2, <3>1, <3>2 DEF Describes
  <2>5. SpanInv'
    BY <1>1, <1>4, <2>2 DEF SpanInv, Known
  <2>6. Ahead(g)'
    <3> SUFFICES ASSUME NEW r \in Requests, Known(call[r]), NEW t \in Servers \ g.drained
                 PROVE  call[r].hi <= version[t]
      BY <1>4, <2>2 DEF Ahead, Known
    <3>1. CASE t = s
      BY <2>1, <3>1 DEF SpanInv, Describes
    <3>2. CASE t # s
      BY <2>1, <3>2 DEF Ahead
    <3> QED BY <3>1, <3>2
  <2> QED BY <1>7, <2>4, <2>5, <2>6 DEF ServeInv
<1>12. CASE h.op = "update"
  <2>1. /\ g.reg = f.reg /\ g.paused = f.paused /\ g.awake = f.awake \cup {s}
        /\ g.fresh = f.fresh \cup {s} /\ g.stale = f.stale \ {s} /\ g.drained = f.drained
        /\ s \in f.drained
    BY <1>0, <1>1, <1>5, <1>9, <1>12 DEF After, Forecasts, Allowed
  <2>2. /\ awake' = [awake EXCEPT ![s] = TRUE] /\ version' = [version EXCEPT ![s] = step]
        /\ UNCHANGED <<paused, call>>
    BY <1>2, <1>12
  <2>3. version'[s] = step /\ \A t \in Servers \ {s} : version'[t] = version[t]
    BY <1>8, <2>2
  <2>4. Describes(g)'
    <3> SUFFICES ASSUME NEW t \in Servers
                 PROVE  /\ t \in g.paused <=> paused'[t]
                        /\ t \in g.awake <=> awake'[t]
                        /\ t \in g.fresh => version'[t] = step'
                        /\ t \in g.stale => version'[t] = step' - 1
                        /\ t \in g.drained => Drained(t)'
      BY <1>1, <1>4, <2>1 DEF Describes
    <3>1. t \in g.drained => Drained(t)'
      BY <1>1, <2>1, <2>2 DEF Describes, Drained
    <3>2. t \in g.awake <=> awake'[t]
      BY <1>8, <2>1, <2>2 DEF Describes
    <3> QED BY <1>1, <2>1, <2>2, <2>3, <3>1, <3>2 DEF Describes
  <2>5. \A r \in Requests : call[r].stage = "running" => call[r].at # s /\ call[r].at \in Servers
    BY <2>1, RunningServes
  <2>6. SpanInv'
    BY <1>1, <1>4, <1>8, <2>2, <2>3, <2>5 DEF SpanInv, Known
  <2>7. Ahead(g)'
    BY <1>4, <2>1, <2>2, <2>3 DEF Ahead, Known
  <2> QED BY <1>7, <2>4, <2>6, <2>7 DEF ServeInv
<1>13. CASE h.op = "sleep"
  <2>1. /\ g.reg = f.reg /\ g.paused = f.paused /\ g.awake = f.awake \ {s}
        /\ g.fresh = f.fresh /\ g.stale = f.stale /\ g.drained = f.drained
    BY <1>0, <1>5, <1>9, <1>13 DEF After, Forecasts
  <2>2. awake' = [awake EXCEPT ![s] = FALSE] /\ UNCHANGED <<paused, version, call>>
    BY <1>2, <1>13
  <2>3. Describes(g)'
    <3> SUFFICES ASSUME NEW t \in Servers
                 PROVE  /\ t \in g.paused <=> paused'[t]
                        /\ t \in g.awake <=> awake'[t]
                        /\ t \in g.fresh => version'[t] = step'
                        /\ t \in g.stale => version'[t] = step' - 1
                        /\ t \in g.drained => Drained(t)'
      BY <1>1, <1>4, <2>1 DEF Describes
    <3>1. t \in g.drained => Drained(t)'
      BY <1>1, <2>1, <2>2 DEF Describes, Drained
    <3>2. t \in g.awake <=> awake'[t]
      BY <1>8, <2>1, <2>2 DEF Describes
    <3> QED BY <1>1, <2>1, <2>2, <3>1, <3>2 DEF Describes
  <2>4. SpanInv' /\ Ahead(g)'
    BY <1>1, <1>4, <2>1, <2>2 DEF SpanInv, Ahead, Known
  <2> QED BY <1>7, <2>3, <2>4 DEF ServeInv
<1> QED BY <1>2, <1>10, <1>11, <1>12, <1>13

LEMMA ServeInit == ASSUME Init PROVE SpanInv /\ ServeInv
<1>1. BaseInv
  BY BaseInit
<1>2. /\ NoServer \notin Servers /\ LastStep \in Nat /\ Servers = Standalone \cup Hybrid
      /\ Standalone \cap Hybrid = {}
  BY <1>1, ConfFacts DEF BaseInv, TypeInv
<1>3. \A r \in Requests : /\ call[r].at = NoServer /\ call[r].lo = LastStep + 1
                          /\ call[r].by = {} /\ ~Known(call[r])
  BY <1>2 DEF Init, NewCall, Known
<1>4. /\ DOMAIN inflight = IF active THEN Servers ELSE Standalone
      /\ \A s \in Servers : /\ paused[s] = FALSE /\ version[s] = 0
                            /\ awake[s] = (active \/ s \in Standalone)
      /\ step = 0 /\ script = <<>> /\ active \in BOOLEAN
  BY DEF Init
<1>5. SpanInv
  BY <1>3, <1>4 DEF SpanInv
<1>6. PICK in : in = DOMAIN inflight /\ in \subseteq Servers
  BY <1>2, <1>4
<1> DEFINE f == [reg |-> in, paused |-> {}, awake |-> in, fresh |-> Servers, stale |-> {},
                 drained |-> Servers \ in]
<1>7. /\ f \in Forecasts /\ f.reg = in /\ f.paused = {} /\ f.awake = in
      /\ f.fresh = Servers /\ f.stale = {} /\ f.drained = Servers \ in
  BY <1>6 DEF Forecasts
<1> HIDE DEF f
<1>8. Sound(f) /\ Settled(f, active)
  BY <1>4, <1>6, <1>7 DEF Sound, Settled
<1>9. Safe(script, f, active)
  BY <1>4, <1>7, <1>8, SafeEmpty
<1>10. \A s \in Servers \ in : Drained(s)
  BY <1>2, <1>3, <1>6 DEF Drained
<1>11. Describes(f)
  BY <1>2, <1>4, <1>6, <1>7, <1>10 DEF Describes
<1>12. Ahead(f)
  BY <1>3 DEF Ahead
<1> QED BY <1>5, <1>9, <1>11, <1>12 DEF ServeInv

Inv == BaseInv /\ SpanInv /\ ServeInv

LEMMA InvStep == ASSUME NoValidation, Inv, [Next]_vars PROVE Inv'
<1>1. BaseInv'
  BY BaseStep DEF Inv
<1>2. PICK f : Describes(f) /\ Ahead(f) /\ Safe(script, f, active)
  BY DEF Inv, ServeInv
<1>3. CASE UNCHANGED vars
  <2>1. Servers' = Servers /\ LastStep' = LastStep
    BY ConfKept
  <2>2. /\ inflight' = inflight /\ paused' = paused /\ awake' = awake /\ version' = version
        /\ call' = call /\ script' = script /\ step' = step /\ active' = active
    BY <1>3 DEF vars, balancerVars, serverVars, trainerVars
  <2>3. SpanInv'
    BY <2>1, <2>2 DEF Inv, SpanInv, Known
  <2>4. Describes(f)' /\ Ahead(f)'
    BY <1>2, <2>1, <2>2 DEF Describes, Drained, Ahead, Known
  <2>5. Safe(script, f, active)'
    BY <1>2, <2>2, SafeNext
  <2> QED BY <1>1, <2>3, <2>4, <2>5 DEF Inv, ServeInv
<1>4. CASE Stopped
  BY <1>3, <1>4 DEF Stopped
<1>5. CASE \E r \in Requests : Client(r)
  BY <1>1, <1>2, <1>5, ClientServes DEF Inv
<1>6. CASE Step
  BY <1>1, <1>2, <1>6, StepServes DEF Inv
<1>7. CASE Route \/ Skip
  BY <1>1, <1>2, <1>7, RouteServes DEF Inv
<1>8. CASE \E s \in Servers : Serve(s)
  BY <1>1, <1>2, <1>8, ServeServes DEF Inv
<1> QED BY <1>3, <1>4, <1>5, <1>6, <1>7, <1>8 DEF Next, Trainer

LEMMA InvHolds == ASSUME NoValidation PROVE Spec => []Inv
<1>1. Init => Inv
  BY BaseInit, ServeInit DEF Inv
<1>2. Inv /\ [Next]_vars => Inv'
  BY InvStep
<1> QED BY <1>1, <1>2, PTL DEF Spec

(* A server the balancer routes to holds its weights, and if it is paused   *)
(* the trainer is on its way to resume it, in every deployment but the one  *)
(* with the validation on the trainer side.                                 *)
THEOREM RoutableServersAreServed == ASSUME NoValidation PROVE Spec => []RoutableServersServe
<1>1. Inv => RoutableServersServe
  <2> SUFFICES ASSUME Inv, NEW s \in DOMAIN inflight
               PROVE  /\ awake[s]
                      /\ paused[s] => \E i \in DOMAIN script :
                                          script[i].op = "resume" /\ s \in script[i].on
    BY DEF RoutableServersServe
  <2>1. PICK f : Describes(f) /\ Safe(script, f, active)
    BY DEF Inv, ServeInv
  <2>2. Good(script, f, active)
    BY <2>1, SafeTail
  <2>3. s \in Servers /\ s \in f.reg
    BY <2>1 DEF Inv, BaseInv, TypeInv, Describes
  <2> QED BY <2>1, <2>2, <2>3 DEF Good, Sound, Describes, Resumes
<1> QED BY <1>1, InvHolds, PTL

(* The span of versions an answer reports encloses the versions of all its  *)
(* tokens, over any number of attempts on any servers, without validation   *)
(* on the trainer side.                                                     *)
THEOREM SpanEnclosesTokens == ASSUME NoValidation PROVE Spec => []VersionSpan
<1>1. Inv => VersionSpan
  BY DEF Inv, SpanInv, VersionSpan
<1> QED BY <1>1, InvHolds, PTL

(* No step replaces or releases the weights a call generates with, unless   *)
(* the trainer validates on its side.                                       *)
THEOREM WeightsAreKept == ASSUME NoValidation PROVE Spec => WeightsStay
<1>1. ASSUME Inv, [Next]_vars, NEW r \in Requests, call[r].stage = "running"
      PROVE  LET s == call[r].at
             IN  awake[s] /\ awake'[s] /\ version'[s] = version[s]
  <2>0. PICK s : s = call[r].at
    OBVIOUS
  <2> DEFINE Kept == awake'[s] /\ version'[s] = version[s]
  <2>1. PICK f : Describes(f) /\ Safe(script, f, active)
    BY <1>1 DEF Inv, ServeInv
  <2>2. s \in Servers \ f.drained /\ awake[s]
    BY <1>1, <2>0, <2>1, RunningServes DEF Inv
  <2>3. awake \in [Servers -> BOOLEAN] /\ version \in [Servers -> Versions]
    BY <1>1 DEF Inv, BaseInv, TypeInv
  <2>4. ASSUME awake' = awake /\ version' = version PROVE Kept
    BY <2>2, <2>4
  <2>5. ASSUME NEW t \in Servers, Serve(t) PROVE Kept
    <3>1. script # <<>> /\ t \in Head(script).on
      BY <2>5 DEF Serve
    <3>2. Allowed(Head(script), f)
      BY <2>1, <3>1, SafeTail DEF Good
    <3>3. CASE Head(script).op \in {"update", "sleep"}
      <4>1. t # s
        BY <2>2, <3>1, <3>2, <3>3 DEF Allowed
      <4> QED BY <2>2, <2>3, <2>5, <4>1 DEF Serve
    <3>4. CASE Head(script).op \notin {"update", "sleep"}
      BY <2>2, <2>5, <3>4 DEF Serve
    <3> QED BY <3>3, <3>4
  <2>6. ASSUME \E q \in Requests : Client(q) PROVE Kept
    BY <2>4, <2>6 DEF Client, Acquire, Arrive, Emit, Complete, Receive, Release, serverVars
  <2>7. ASSUME Step \/ Route \/ Skip \/ Stopped \/ UNCHANGED vars PROVE Kept
    BY <2>4, <2>7 DEF Step, Route, Skip, Stopped, vars, serverVars
  <2>8. Kept
    <3> HIDE DEF Kept
    <3> QED BY <1>1, <2>5, <2>6, <2>7 DEF Next, Trainer
  <2> QED BY <2>0, <2>2, <2>8
<1>2. Inv /\ [Next]_vars =>
        [\A r \in Requests :
           call[r].stage = "running" =>
             LET s == call[r].at
             IN  awake[s] /\ awake'[s] /\ version'[s] = version[s]]_vars
  BY <1>1
<1> QED BY <1>2, InvHolds, PTL DEF Spec, WeightsStay
=============================================================================
