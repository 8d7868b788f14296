SPECIFICATION FairSpec
CONSTANTS
    Prompts = {p1, p2, p3}
    Configs <- Waits
    Sessions = 2
    Threshold = 1
    TotalSteps = 3
    MaxCredit = 2
    MaxResumes = 0
PROPERTIES
    SampleReturns
