\* Two requests at a time, two addresses in three spellings, three accounts; fair.
SPECIFICATION FairSpec
CONSTANTS
    ann = ann
    Ann = Ann
    bob = bob
    r1 = r1
    r2 = r2
    None = None
    Spellings <- MCSpellings
    Normal <- MCNormal
    Requests <- MCRequests
    MaxUsers = 3
    MaxFaults = 1
INVARIANTS TypeOK EmailsUnique AnnouncedOnce
PROPERTIES KeepsDirectory EventuallyAnswered
