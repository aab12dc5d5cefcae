\* Three requests at a time, three tokens, one fault; fair.
SPECIFICATION FairSpec
CONSTANTS
    u1 = u1
    u2 = u2
    r1 = r1
    r2 = r2
    r3 = r3
    None = None
    Users <- OneUser
    Requests <- ThreeRequests
    MaxTokens = 3
    MaxFaults = 1
INVARIANTS TypeOK ExchangedOnce OneLiveTokenPerSession NoOrphanedToken
PROPERTIES RotatesInOneStep EventuallyAnswered
