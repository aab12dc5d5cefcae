\* Two requests at a time and no faults.
SPECIFICATION FairSpec
CONSTANTS
    ann = ann
    Ann = Ann
    bob = bob
    r1 = r1
    r2 = r2
    None = None
    Spellings <- MCSpellings
    Normal <- MCNormal
    Requests <- MCRequests
    MaxUsers = 2
    MaxFaults = 0
PROPERTIES ConflictIsAnswered
