SPECIFICATION SpecSearch
CONSTANTS
    Sources <- MCSources
    Kind <- MCKind
    Corpora <- MCCorpora
    Limit = 5
    MaxFiles = 3
INVARIANTS
    EverySourceHeard
    BestMatchKept
    SilenceIsExplained
PROPERTIES
    SearchEnds
