SPECIFICATION MCSpec
CONSTANTS
    Callers = {c1, c2}
    Databases <- MCDatabases
    Rows = {"w", "x", "y", "z"}
    Local <- MCLocal
    Chunk = 2
    MaxStreams = 2
    MaxFlight = 2
    None = None
    Faults = {"none", "open", "any_audience", "trusting", "lax", "blind", "repeating", "forgetful"}
    Fixture <- MCFixture
    MaxOthers = 1
    MaxRows = 6
INVARIANTS
    ReplicationIsExact
    AcceptanceIsTrue
SYMMETRY MCSymmetry
CHECK_DEADLOCK FALSE
