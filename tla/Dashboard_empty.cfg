SPECIFICATION DashboardSpec
CONSTANTS
    c1 = c1
    c2 = c2
    r1 = r1
    MaxEvents = 3
    InitialEvents = 0
    Cap = 2
    CardLength = 2
    Timestamp <- Times
    NumberOf <- TwoAlike
    Calls <- MCCalls
    Failures = {"http", "stream", "reply"}
    Fields = {"query", "action"}
    Values = {"a"}
    Pages = 2
    Runs <- MCRuns
    SearchFails = TRUE
    Queries = {"", "a", "b"}
    Hits <- MCHits
    IdText <- MCIdText
    Matching <- MCMatching
    NavigationItem = "nav"
    DialogFaults = {"refused", "network"}
INVARIANT
    EmptyFeedIsShown
CHECK_DEADLOCK FALSE
