SPECIFICATION SpecReducer
CONSTANTS
    Names <- MCNames
    CaseFold <- MCCaseFold
    Requests <- MCRequests
    Blank = ""
    Unresolved = "unresolved"
    Default = "current request"
    TopicLimit = 2
    RecentLimit = 2
    MaxUpdates = 4
INVARIANTS
    MostRecentTopics
    EntitiesAccumulate
    RecentIsTheEnd
    RecentDuplicatesIgnored
CHECK_DEADLOCK FALSE
