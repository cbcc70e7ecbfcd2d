SPECIFICATION Spec
CONSTANTS
    Vocab = {2}
    Prompts <- MCPrompts
    Keeps <- MCKeeps
    Discards <- MCDiscards
    Zero = 0
    NCtx = 5
    NBatch = 3
    NUBatch = 3
    AddBos = 1
    NCacheReuse = 0
    SpecMax = 1
    NPredict = 3
    MaxRequests = 2
    Unset = Unset
INVARIANTS
    TypeOK
    ContextRight
    
    LogitsExist
CHECK_DEADLOCK FALSE
