SPECIFICATION Spec
CONSTANTS
    Threshold = 2
    Factor = 8
    Chunk = 2
    Span = 12
    Window = 3
    Sep = 1
    Bundles <- MCBundles
    NoteSizes = {0, 1}
INVARIANTS
    RenderingIsSound
    EvidenceIsRead
