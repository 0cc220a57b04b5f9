\* One message more than the model is given.
SPECIFICATION Spec
CONSTANTS
    Sends = {m1, m2}
    None = None
    HistoryLimit = 2
    MaxTurns = 3
    MaxTruncations = 1
    MaxCalls = 2
INVARIANT PromptHasQuestion
CHECK_DEADLOCK FALSE
