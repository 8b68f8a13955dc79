SPECIFICATION SpecConversations
CONSTANTS
    s1 = s1
    s2 = s2
    t1 = t1
    t2 = t2
    t3 = t3
    t4 = t4
    a = a
    b = b
    q1 = q1
    q2 = q2
    None = None
    Sessions <- MCSessions
    Turns <- MCTurns
    SessionOf <- MCSessionOf
    Clients <- MCClients
    Questions <- MCQuestions
    Writes <- MCWrites
    Header <- MCHeader
    SessionKey <- MCSessionKey
    MaxQuestions <- MCMaxQuestions
    Queries <- MCQueries
    Replies <- MCReplies
    Names <- MCNames
    CaseFold <- MCCaseFold
    Blank = ""
    Unresolved = "unresolved"
    Default = "unresolved"
    Conversation = "conversation"
    TopicLimit = 2
    RecentLimit = 2
CHECK_DEADLOCK FALSE
SYMMETRY Symmetry
INVARIANTS
    AnswersFollowQuestions
    PatientClientsInOrder
    ReadsWhatWasAnswered
    LastTurnRespectsAnswers
