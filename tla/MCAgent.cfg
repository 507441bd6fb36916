CONSTANTS
    Callers <- MCCallers
    MaxMessages = 4
    DataRounds = 2
    ToolRounds = 2
    MaxPairs = 5
    MaxBlocks = 2
    MaxCalls = 2
    MaxRecords = 2

SPECIFICATION MCSpec

INVARIANTS
    ConversationsAreValid
    GatesAgree
    ListsAreAttributed
CHECK_DEADLOCK FALSE
