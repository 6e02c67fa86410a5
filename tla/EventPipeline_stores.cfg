SPECIFICATION FairSpec
CONSTANTS
    w1 = w1
    w2 = w2
    Workers <- MCWorkers
    Events <- MCEvents3
    BatchSize = 2
    FeedCap = 1
    MaxEntries = 3
    KeyOf <- TwoKeys
    Unencodable <- EventTwo
    Faults <- StoreFaults
INVARIANTS
    PersistenceFirst
    AckedIsStored
    UserMapsMatchCounts
    FeedIsNewest
PROPERTIES
    BatchesEnd
CHECK_DEADLOCK FALSE
