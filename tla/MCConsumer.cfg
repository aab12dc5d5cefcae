\* Two consumers, good and bad events, three records, three assignments; fair.
SPECIFICATION FairSpec
CONSTANTS
    c1 = c1
    c2 = c2
    good1 = good1
    good2 = good2
    bad = bad
    Nobody = Nobody
    Consumers <- TwoConsumers
    Events <- MixedEvents
    Bad <- BadEvents
    Lengths <- ThreeRecords
    MaxMoves = 3
    MaxFaults = 1
INVARIANTS TypeOK AuditedOnce CommittedIsAccounted
PROPERTIES EventuallyAccounted
