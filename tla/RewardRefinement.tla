--------------------------- MODULE RewardRefinement ---------------------------
(* RewardService implements RewardContract: the refinement mapping.          *)
EXTENDS RewardService

ContractState ==
    IF ~Alive THEN "gone"
    ELSE IF fatal \/ \E t \in Tasks : batcherFatal[t] THEN "failed"
    ELSE IF ready THEN "serving"
    ELSE "starting"

(* The outcome of a request is fixed when its caller gets it.                *)
ContractVerdict(r) ==
    IF hpc[r] = "idle" THEN "none"
    ELSE IF hpc[r] # "done" THEN "open"
    ELSE IF reply[r] = "200" THEN "score"
    ELSE IF reply[r] = "500" /\ future[r] = "failed" THEN "error"
    ELSE IF reply[r] = "reset" THEN "cut"
    ELSE "refused"

Contract == INSTANCE RewardContract
            WITH state <- ContractState,
                 verdict <- [r \in Requests |-> ContractVerdict(r)],
                 code <- exitCode

(* Every step of the service, seen by its callers and by the script that    *)
(* started it, is a step the contract allows: readiness comes once, a        *)
(* failure is final, scores are never taken back, an error reply means that  *)
(* a batch failed, and the exit status tells.                                *)
ImplementsContract == Contract!Spec

=============================================================================
