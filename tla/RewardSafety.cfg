SPECIFICATION Spec
CONSTANTS
    Requests <- Three
    TaskOf <- MixedTaskOf
    MaxBatch = 2
    Faults = {"load", "infer", "invalid", "signal", "slowjoin"}
INVARIANTS
    ModelExclusive
    IdleSleeperHasRival
    PendingExactlyOnce
    RepliesFollowFutures
    ExitCodeTellsFailure
    ModelNotClosedInUse
PROPERTIES
    ImplementsContract
