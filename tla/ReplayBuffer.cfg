SPECIFICATION Spec
CONSTANTS
    Prompts = {p1, p2, p3, p4}
    Configs <- All
    Sessions = 2
    Threshold = 2
    TotalSteps = 3
    MaxCredit = 2
    MaxResumes = 1
SYMMETRY Uids
INVARIANTS
    TypeOK
    StockIsConstant
    BatchCanFill
    SyncIsBufferless
    SpansWithinThreshold
    TrainedGroupsSettled
    NoLeakedTrajectories
