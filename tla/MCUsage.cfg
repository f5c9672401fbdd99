SPECIFICATION Spec
CONSTANTS
    Unknown = Unknown
    Operators = {o1, o2}
    Accounts = {a, b}
    Sessions = {s}
    Logs <- MCLogs
    Files = {1, 2}
    FirstRelease = {1}
    ReportWindows <- MCWindows
    MaxSamples = 2
    MaxFailures = 1
INVARIANTS
    OneIdentity
    EvidencePerforms
    FirstAdmissionStands
    GrowthIsWithinTheWindow
CHECK_DEADLOCK FALSE
SYMMETRY MCSymmetry
