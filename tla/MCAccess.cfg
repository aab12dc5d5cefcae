\* Two users, a login or refresh and a call at a time, two role changes; fair.
SPECIFICATION FairSpec
CONSTANTS
    u1 = u1
    u2 = u2
    s1 = s1
    c1 = c1
    Nobody = Nobody
    Users <- MCUsers
    Sessions <- MCSessions
    Calls <- MCCalls
    AccessTTL = 2
    IssueTime = 1
    ServeTime = 1
    MaxChanges = 2
INVARIANTS TypeOK AuthorityIsRecent SameDecision
PROPERTIES EventuallyCurrent
