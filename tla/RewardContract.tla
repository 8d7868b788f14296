---------------------------- MODULE RewardContract ----------------------------
(***************************************************************************)
(* What the reward service promises its callers and the script that        *)
(* started it, without batchers, queues or the shared model: the promise   *)
(* of the docstring of reward_model_server.py, "no retry and no degraded   *)
(* score", and of run_server's return value.                               *)
(***************************************************************************)
CONSTANT Requests

VARIABLES state,   \* "starting", "serving", "failed" or "gone"
          verdict, \* what became of each request
          code     \* the status the process ends with

Verdicts == {"none", "open", "score", "error", "refused", "cut"}

Init ==
    /\ state = "starting"
    /\ verdict = [r \in Requests |-> "none"]
    /\ code = 0

(* The model is loaded: the service turns ready, once.                      *)
Serve ==
    /\ state = "starting"
    /\ state' = "serving"
    /\ UNCHANGED <<verdict, code>>

(* The load or a batch failed: there is no way back.                        *)
Fail ==
    /\ state \in {"starting", "serving"}
    /\ state' = "failed"
    /\ UNCHANGED <<verdict, code>>

Settle(r, from, to) ==
    /\ state # "gone"
    /\ verdict[r] = from
    /\ verdict' = [verdict EXCEPT ![r] = to]
    /\ UNCHANGED <<state, code>>

Open(r)   == Settle(r, "none", "open")
Refuse(r) == Settle(r, "open", "refused")

(* Batches that were on their way when another one failed still score.      *)
Score(r)  == state \in {"serving", "failed"} /\ Settle(r, "open", "score")

(* An accepted request fails only because some batch has failed.            *)
Error(r)  == state = "failed" /\ Settle(r, "open", "error")

(* The process ends, with 1 only if something failed; open connections are   *)
(* cut.                                                                     *)
Leave ==
    /\ state # "gone"
    /\ state' = "gone"
    /\ code' \in IF state = "failed" THEN {0, 1} ELSE {0}
    /\ verdict' = [r \in Requests |->
                      IF verdict[r] = "open" THEN "cut" ELSE verdict[r]]

Next ==
    \/ Serve \/ Fail \/ Leave
    \/ \E r \in Requests : Open(r) \/ Refuse(r) \/ Score(r) \/ Error(r)

Spec == Init /\ [][Next]_<<state, verdict, code>>

=============================================================================
