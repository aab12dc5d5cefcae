\* Two readers and two writers, two changes, two errors; fair.
SPECIFICATION FairSpec
CONSTANTS
    r1 = r1
    r2 = r2
    w1 = w1
    w2 = w2
    Readers <- MCReaders
    Writers <- MCWriters
    TTL = 2
    ReadTime = 1
    MaxVersion = 3
    MaxFaults = 2
INVARIANTS TypeOK StalenessIsBounded StaleHasCause
PROPERTIES EventuallyFresh
