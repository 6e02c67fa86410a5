SPECIFICATION Spec
CONSTANTS
    w1 = w1
    w2 = w2
    Workers <- MCWorkers
    Events <- MCEvents2
    BatchSize = 2
    FeedCap = 1
    MaxEntries = 3
    KeyOf <- TwoKeys
    Unencodable <- NoEvents
    Faults <- DeliveryFaults
SYMMETRY Symmetry
INVARIANTS
    BatchesExclusive
    ClickHouseOnce
    CountedOnce
    IndInv
PROPERTIES
    LedgerSpec
CHECK_DEADLOCK FALSE
