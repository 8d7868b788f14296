---------------------------- MODULE MCFullyAsync ----------------------------
(* Configurations of fully asynchronous training for TLC.                    *)
EXTENDS FullyAsync

Config(required, sync, max, standalone, hybrid, fails) ==
    [required |-> required, sync |-> sync, max |-> max, standalone |-> standalone,
     hybrid |-> hybrid, fails |-> fails, saveFreq |-> 2]

(* Budgets without and with room for stale samples, with and without a      *)
(* failing task and with hybrid replicas beside or instead of others.       *)
All == {Config(1, 2, 2, 2, 0, FALSE), Config(1, 2, 3, 1, 0, TRUE),
        Config(2, 2, 6, 2, 0, TRUE),
        Config(1, 2, 3, 1, 1, FALSE), Config(2, 1, 3, 0, 2, FALSE)}

(* Hybrid replicas only, and a batch of more than one sample.               *)
HybridOnly == {Config(2, 1, 3, 0, 2, FALSE)}

=============================================================================
