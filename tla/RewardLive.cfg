SPECIFICATION FairSpec
CONSTANTS
    Requests <- Three
    TaskOf <- MixedTaskOf
    MaxBatch = 2
    Faults = {"load", "infer", "signal"}
PROPERTIES
    RequestsAnswered
    ProcessEnds
