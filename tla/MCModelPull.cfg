SPECIFICATION Spec
CONSTANTS
    r1 = r1
    r2 = r2
    good = good
    stale = stale
    N = 2
    Runs <- MCRuns
    Contents <- MCContents
    Expected <- MCExpected
    Pullable <- MCPullable
    Absent = Absent
    Partial = Partial
    Torn = Torn
INVARIANTS
    PullOutcome
    GenerationOutcome
PROPERTIES
    InstallsAreAtomic
CHECK_DEADLOCK FALSE
