SPECIFICATION BackfillSpec
CONSTANTS
    Rows <- MCRows
    Times <- MCTimes
    PageSize = 2
    Unencodable <- NoRows
    BackfillFaults <- NoFaults
INVARIANTS
    BackfillIsComplete
CHECK_DEADLOCK FALSE
