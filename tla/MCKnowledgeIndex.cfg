SPECIFICATION Spec
CONSTANTS
    i1 = i1
    i2 = i2
    q1 = q1
    b1 = b1
    s1 = s1
    s2 = s2
    Nobody = Nobody
    None = "none"
    Ingestions = {i1, i2}
    Searches = {q1}
    Probes = {b1}
    Sources = {s1, s2}
    SourceOf <- MCSourceOf
    Texts = {"old", "new"}
    Tree <- MCTree
    Disks <- MCDisks
    Cap = 1
    MaxEdits = 1
INVARIANTS
    WalkIsSound
    IndexIsLastWalk
    AnsweredIsIndexed
PROPERTIES
    AtomicReplacement
    CallsEnd
