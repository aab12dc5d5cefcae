\* Two clients and two addresses in three spellings; fair.
SPECIFICATION FairSpec
CONSTANTS
    ann = ann
    Ann = Ann
    bob = bob
    ip1 = ip1
    ip2 = ip2
    NoAddress = NoAddress
    Clients <- MCClients
    Spellings <- MCSpellings
    Normal <- MCNormal
    Limit <- MCLimit
    Window <- MCWindow
    MaxFaults = 1
INVARIANTS TypeOK AdmissionIsBounded RefusalIsOwn
PROPERTIES EventuallyOpen
