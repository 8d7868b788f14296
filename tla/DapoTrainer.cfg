SPECIFICATION Spec
CONSTANTS
    LoaderLen = 3
    TotalEpochs = 2
    TotalSteps = 6
    TrainBatch = 2
    GenBatch = 2
    FilterGroups = TRUE
    MaxGenBatches = 3
    SaveFreq = 4
    CriticWarmup = 0
    EsiExpires = TRUE
    MaxCrashes = 2
    MaxKeep = 2
    MaxStep = 9
INVARIANTS
    TypeOK
    TrackedIsLoadable
    RolloutsOnPolicy
    LostWorkBounded
    EpochsAreComplete
    FinalWeightsSaved
PROPERTIES
    ImplementsStore
