SPECIFICATION MCSystemSpec
CONSTANTS
    w1 = w1
    w2 = w2
    x1 = x1
    x2 = x2
    Workers <- MCWorkers
    Indexers <- MCIndexers
    Events <- MCEvents
    BatchSize = 1
    IndexBatchSize = 2
    FeedCap = 1
    MaxEntries = 2
    KeyOf <- OneKey
    Unencodable <- NoEvents
    Malformed <- NoEvents
    Faults <- ProcessFaults
    IndexFaults <- ElasticFaults
INVARIANTS
    SearchIsPersisted
PROPERTIES
    QueueSurvivesRestart
    SettledWhenCalm
    SearchableWhenCalm
CHECK_DEADLOCK FALSE
