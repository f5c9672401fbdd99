CONSTANTS
    Documents <- AllDocuments
    MonthStart <- Months3
    Opening = 1
    Beginnings <- MCBeginnings
    NoField = NoField
    None = NoField
    MaxDocuments = 11
    Systems = {"books", "metrics"}
    Events <- MCEvents
    FirstEvents <- MCFirst
    Keys <- MCKeys
    Row <- MCRow
    Consistent <- MCConsistent
    Versions = {1, 2}
    GroupBound = 2
    Callers = {c}
    Cutoffs = {1, 2}
    MaxRuns = 3
    MaxReports = 2
SPECIFICATION MCSpec
INVARIANTS
    ImplementationsAgree
    DocumentsBalance
    CommitmentsAreSpentInOrder
    ReceiptsReplay
    AttributionIsMinimal
CHECK_DEADLOCK FALSE
