SPECIFICATION FairSpec
CONSTANTS
    Total = 9
    FeedMax = 2
    Configs <- All
INVARIANTS
    OutstandingBounded
    SamplesAccounted
    EndSignalArrives
    TailBounded
PROPERTY
    TrainingEnds
