SPECIFICATION FairSpec
CONSTANTS
    Total = 4
    FeedMax = 2
    Configs <- HybridOnly
PROPERTY EndSignalEndsTraining
