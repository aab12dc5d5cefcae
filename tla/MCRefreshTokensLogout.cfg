\* Two requests at a time and no faults.
SPECIFICATION FairSpec
CONSTANTS
    u1 = u1
    u2 = u2
    r1 = r1
    r2 = r2
    r3 = r3
    None = None
    Users <- OneUser
    Requests <- TwoRequests
    MaxTokens = 2
    MaxFaults = 0
PROPERTIES LogoutIsIdempotent
