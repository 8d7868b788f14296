SPECIFICATION Spec
CONSTANTS
    Requests <- Three
    TaskOf <- MixedTaskOf
    MaxBatch = 2
    Faults = {"infer"}
INVARIANTS
    FailureReachesEveryRequest
