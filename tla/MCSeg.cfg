SPECIFICATION FairSpec
CONSTANTS
    WeakLimit = 2
    FailLimit = 2
INVARIANTS TypeOK OutageEarned WeakEarned
PROPERTIES OutageShown OutageEnds
