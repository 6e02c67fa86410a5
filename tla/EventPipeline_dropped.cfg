SPECIFICATION FairSpec
CONSTANTS
    w1 = w1
    w2 = w2
    Workers <- MCWorkers
    Events <- MCEvents2
    BatchSize = 2
    FeedCap = 1
    MaxEntries = 2
    KeyOf <- TwoKeys
    Unencodable <- NoEvents
    Faults <- ClickHouseFaults
PROPERTIES
    AcceptedReachesStores
CHECK_DEADLOCK FALSE
