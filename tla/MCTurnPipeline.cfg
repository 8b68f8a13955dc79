SPECIFICATION FairSpec
CONSTANTS
    Registered <- MCAll
    HitLimit = 1
    MaxChunks = 3
    MinSections = 3
    MaxSections = 4
INVARIANTS
    EmitGate
    NothingFromNothing
    ModeExplainsRoute
    CallBudget
PROPERTY
    TurnEnds
