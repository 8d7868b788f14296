SPECIFICATION Spec
CONSTANTS
    LoaderLen = 3
    TotalEpochs = 2
    TotalSteps = 6
    TrainBatch = 2
    GenBatch = 2
    FilterGroups = TRUE
    MaxGenBatches = 3
    SaveFreq = 3
    CriticWarmup = 0
    EsiExpires = FALSE
    MaxCrashes = 1
    MaxKeep = 2
    MaxStep = 8
INVARIANTS
    SkippedStateIsExhausted
