CONSTANTS
    Documents <- CutoverDocuments
    MonthStart <- Months3
    Opening = 2
    Beginnings <- CutoverBeginnings
    NoField = NoField
    None = NoField
    MaxDocuments = 9
    Systems = {"books"}
    Events <- MCEvents
    FirstEvents <- MCFirst
    Keys <- MCKeys
    Row <- MCRow
    Consistent <- MCConsistent
    Versions = {1, 2}
    GroupBound = 2
    Callers = {c}
    Cutoffs = {1, 2}
    MaxRuns = 3
    MaxReports = 2
SPECIFICATION MCSpec
INVARIANTS
    ImplementationsAgree
CHECK_DEADLOCK FALSE
