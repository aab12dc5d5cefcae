\* The lease ends before the deadline: claims are stolen from workers at work.
\* Three rows in batches of two: some wait for a later batch; fair.
SPECIFICATION FairSpec
CONSTANTS
    w1 = w1
    w2 = w2
    e1 = e1
    e2 = e2
    e3 = e3
    Workers <- MCWorkers
    Events <- MCEvents
    CreatedAt <- MCCreatedAt
    BatchSize = 2
    MaxAttempts = 2
    LockTimeout = 1
    ProcessTimeout = 2
    ClockSkew = 0
    MaxFaults = 2
INVARIANTS TypeOK CopiesWithinAttempts ReclaimsNeedFaults
PROPERTIES KeepsPromise EventuallySettled
