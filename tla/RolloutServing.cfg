SPECIFICATION FairSpec
CONSTANTS
    Requests = {r1, r2}
    Budget = 2
    Configs <- All
INVARIANTS
    TypeOK
    CountsAreSound
    RoutableServersServe
    VersionSpan
    BudgetRespected
PROPERTIES
    WeightsStay
    AnsweredOrStranded
