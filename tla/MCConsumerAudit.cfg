\* One consumer, one error of the database.
SPECIFICATION Spec
CONSTANTS
    c1 = c1
    c2 = c2
    good1 = good1
    good2 = good2
    bad = bad
    Nobody = Nobody
    Consumers <- OneConsumer
    Events <- GoodEvents
    Bad <- NoEvents
    Lengths <- TwoRecords
    MaxMoves = 1
    MaxFaults = 1
INVARIANTS CommittedIsAudited
