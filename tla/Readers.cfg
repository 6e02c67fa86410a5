SPECIFICATION ReadersSpec
CONSTANTS
    p1 = p1
    p2 = p2
    NumWorkers = 3
    MaxEvents = 5
    Actions <- MCActions
    Durations <- MCDurations
    Pushers <- TwoPushers
    Events <- MCEvents
    FeedCap = 2
    OldKey = TRUE
    FeedFaults <- FeedFailures
    Rows <- MCRows
    Times <- MCTimes
    PageSize = 2
    Unencodable <- EventThree
    BackfillFaults <- RunFailures
INVARIANTS
    FeedInv
    BackfillInv
    MapReduceInv
    ChannelSuffices
PROPERTIES
    BackfillEnds
    AnalyticsEnds
CHECK_DEADLOCK FALSE
