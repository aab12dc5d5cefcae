\* A failure of the start or of the server; fair.
SPECIFICATION FairSpec
CONSTANT MaxFaults = 1
INVARIANTS TypeOK ResourcesOutliveParts NothingCutOff
PROPERTIES EventuallyEnds
