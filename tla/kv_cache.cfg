SPECIFICATION Spec
CONSTANTS
    Sizes = {3, 4}
    SeqId = {s1, s2}
    UBatch = 2
    MaxMoves = 1
    MaxBatch = 3
    MaxTokens = 4
    MaxPos = 2
    Ranges <- MCRanges
    Deltas <- OneBack
    None = None
    s1 = s1
    s2 = s2
SYMMETRY Symmetry
INVARIANTS
    UsedAccurate
    RopeMatches
    SearchComplete
PROPERTIES
    ImplementsSequenceMemory
