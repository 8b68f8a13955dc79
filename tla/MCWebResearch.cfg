SPECIFICATION Spec
CONSTANTS
    r1 = r1
    r2 = r2
    p1 = p1
    p2 = p2
    m = m
    None = None
    Requests <- MCRequests
    Pages <- MCPages
    Always <- MCAlways
    Sometimes <- MCSometimes
    Malformed <- MCMalformed
    Texts <- MCTexts
    Offers <- MCOffers
    Endless <- MCEndless
    Hops = 3
    Loads = 2
    Limit = 1
INVARIANTS
    OnlyCheckedPages
    AnswerIsOnePage
    ResultsComplete
PROPERTIES
    RequestEnds
