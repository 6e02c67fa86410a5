SPECIFICATION FairSpec
CONSTANTS
    x1 = x1
    x2 = x2
    Indexers <- MCIndexers
    Events <- MCEvents
    IndexBatchSize = 2
    MaxJobs = 4
    Malformed <- EventThree
    Unencodable <- EventTwo
    IndexFaults <- AllFaults
INVARIANTS
    IndexInv
PROPERTIES
    JobLedgerSpec
    IndexBatchesEnd
CHECK_DEADLOCK FALSE
