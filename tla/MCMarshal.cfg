SPECIFICATION MCSpec
CONSTANTS
    MinSize = 3
    BmSize = 2
    MaxRaw = 12
    MaxField = 4
    Payloads <- MCPayloads
    Headers <- MCHeaders
    StackBytes = {0, 90, 255}
INVARIANTS MemorySafe PacketsIntact HeaderReadBack
PROPERTY AllDelivered
CHECK_DEADLOCK FALSE
