SPECIFICATION FairSpec
CONSTANTS
    MaxMessages = 4
    Unnamed = {3}
    Included = {1, 3, 4}
    Limit = 4
    HistoryLimit = 2
    Providers = 2
    MaxBreaks = 1
    MaxFails = 2
INVARIANTS
    TypeOK
    LoadingIsUnderWay
    InOrder
    FillMerges
    ViewFollowsChannel
    LostForAReason
PROPERTIES
    LoadsEnd
CHECK_DEADLOCK FALSE
