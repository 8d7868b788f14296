--------------------------- MODULE MCRewardService ---------------------------
(* Instances of RewardService for TLC.  Requests are strings, assigned to    *)
(* the two tasks by MixedTaskOf, or all to R4 by ScoreTaskOf: evaluation     *)
(* scripts use /score only, training uses both paths.                        *)
EXTENDS RewardRefinement

Two == {"a1", "b1"}
Three == {"a1", "a2", "b1"}
Four == {"a1", "a2", "a3", "b1"}

MixedTaskOf == [r \in Requests |-> IF r = "b1" THEN "reasoning_gate" ELSE "R4"]
ScoreTaskOf == [r \in Requests |-> "R4"]

=============================================================================
