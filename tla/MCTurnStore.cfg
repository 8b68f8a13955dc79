SPECIFICATION FairSpec
CONSTANTS
    s1 = s1
    s2 = s2
    t1 = t1
    t2 = t2
    t3 = t3
    Sessions <- MCSessions
    Turns <- MCTurns
    SessionOf <- MCSessionOf
    Queries <- MCQueries
    Replies <- MCReplies
    Names <- MCNames
    CaseFold <- MCCaseFold
    Blank = ""
    Unresolved = "unresolved"
    Default = "unresolved"
    Conversation = "conversation"
    TopicLimit = 2
    RecentLimit = 2
INVARIANTS
    ReceiptsTruthful
    ReferentsRemembered
    AnsweredIsDurable
PROPERTIES
    AtomicCommits
    StartedTurnsEnd
