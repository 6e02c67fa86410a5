SPECIFICATION FairSpec
CONSTANTS
    x1 = x1
    x2 = x2
    Indexers <- MCIndexers
    Events <- MCEvents
    IndexBatchSize = 2
    MaxJobs = 3
    Malformed <- NoEvents
    Unencodable <- EventTwo
    IndexFaults <- NoFaults
PROPERTIES
    SoundJobIsIndexed
CHECK_DEADLOCK FALSE
