------------------------ MODULE MCRolloutCheckpoint ------------------------
(* The scripts for TLC: batches or pools smaller than the data set, so that  *)
(* there are finished, running and waiting rows when a crash happens.        *)
EXTENDS RolloutCheckpoint

FourRows == 1 .. 4

Script(tool, retry) == [tool |-> tool, workers |-> 2, retry |-> retry]

All == {Script("local", TRUE), Script("local", FALSE),
        Script("remote", TRUE), Script("gemini", FALSE)}

=============================================================================
