\* Two messages on one conversation, a stop and a removal at any point.
SPECIFICATION FairSpec
CONSTANTS
    Sends = {m1, m2}
    None = None
    HistoryLimit = 2
    MaxTurns = 3
    MaxTruncations = 1
    MaxCalls = 2
INVARIANTS
    TypeOK
    ActiveStreamsExact
PROPERTIES
    KeepsTurns
    ResponsesEnd
\* When all messages are handled and the conversation is gone nothing is left.
CHECK_DEADLOCK FALSE
