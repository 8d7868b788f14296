SPECIFICATION FairSpec
CONSTANTS
    Requests <- Four
    TaskOf <- MixedTaskOf
    MaxBatch = 1
    Faults = {}
PROPERTIES
    ReadyBatchIsStarted
CHECK_DEADLOCK FALSE
