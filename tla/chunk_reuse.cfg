SPECIFICATION Spec
CONSTANTS
    Vocab = {2}
    Prompts <- Edited
    Keeps <- NoKeep
    Discards = {0}
    Zero = 0
    NCtx = 8
    NBatch = 8
    NUBatch = 8
    AddBos = 1
    NCacheReuse = 1
    SpecMax = 0
    NPredict = 1
    MaxRequests = 2
    Unset = Unset
INVARIANTS
    ContextRight
CHECK_DEADLOCK FALSE
