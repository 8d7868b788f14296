--------------------------- MODULE MCReplayBuffer ---------------------------
(* Configurations of the v1 trainers for TLC.                                *)
EXTENDS ReplayBuffer, TLC

Sync(dapo, refillFailed, inflightBatches, trainBatch, saveFreq) ==
    [async |-> FALSE, drop |-> TRUE, dapo |-> dapo, refillFailed |-> refillFailed,
     warmup |-> 0, syncStep |-> 1, inflightBatches |-> inflightBatches,
     trainBatch |-> trainBatch, saveFreq |-> saveFreq, maySkip |-> FALSE, tqSaves |-> FALSE]

Async(drop, dapo, syncStep, trainBatch, saveFreq, tqSaves) ==
    [async |-> TRUE, drop |-> drop, dapo |-> dapo, refillFailed |-> FALSE,
     warmup |-> 1, syncStep |-> syncStep, inflightBatches |-> 1,
     trainBatch |-> trainBatch, saveFreq |-> saveFreq, maySkip |-> FALSE, tqSaves |-> tqSaves]

Skipping(c) == [c EXCEPT !.maySkip = TRUE]

(* Every synchronous policy, and each asynchronous strategy with and without *)
(* filtering and with mini-batches; then those that save and resume, with    *)
(* batches of one group, so that there are uids for a second warm-up; last,  *)
(* agent loops without output, for each way the samplers treat such groups.  *)
All == {Sync(dapo, refill, 1, 2, 0) : dapo, refill \in BOOLEAN}
       \cup {Async(TRUE, TRUE, 1, 2, 0, FALSE), Async(TRUE, FALSE, 2, 2, 0, FALSE),
             Async(FALSE, FALSE, 1, 2, 0, FALSE), Async(FALSE, TRUE, 2, 2, 0, FALSE)}
       \cup {Sync(TRUE, TRUE, 2, 1, 1), Async(TRUE, TRUE, 1, 1, 2, TRUE),
             Async(FALSE, FALSE, 1, 1, 2, TRUE), Async(TRUE, FALSE, 1, 1, 2, FALSE)}
       \cup {Skipping(c) : c \in {Sync(FALSE, TRUE, 1, 1, 0), Sync(TRUE, TRUE, 1, 1, 0),
                                  Async(TRUE, TRUE, 1, 1, 0, FALSE),
                                  Async(FALSE, FALSE, 1, 1, 0, FALSE)}}

(* One configuration for each way a sample can wait.                         *)
Waits == {Skipping(Sync(FALSE, TRUE, 1, 1, 0)), Sync(TRUE, TRUE, 2, 1, 0),
          Skipping(Async(TRUE, TRUE, 1, 1, 0, FALSE)), Async(FALSE, TRUE, 1, 1, 0, FALSE)}

Uids == Permutations(Prompts)

=============================================================================
