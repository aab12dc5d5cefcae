\* The lease covers the deadline; two workers, two consumers; fair.
SPECIFICATION FairPipeline
CONSTANTS
    w1 = w1
    w2 = w2
    e1 = e1
    c1 = c1
    c2 = c2
    Nobody = Nobody
    Workers <- MCWorkers
    Events <- MCEvents
    Consumers <- MCConsumers
    CreatedAt <- MCCreatedAt
    BatchSize = 1
    MaxAttempts = 2
    LockTimeout = 2
    ProcessTimeout = 1
    ClockSkew = 1
    MaxFaults = 2
    MaxMoves = 2
    MaxTroubles = 1
INVARIANTS NoSharedEvent DropNeedsFault
PROPERTIES KeepsDelivery EventuallyAudited
