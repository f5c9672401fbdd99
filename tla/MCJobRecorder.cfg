SPECIFICATION Spec
CONSTANTS
    j1 = j1
    j2 = j2
    t1 = t1
    t2 = t2
    x = x
    y = y
    dry = dry
    Threads = {t1, t2}
    Jobs = {j1, j2}
    Payloads = {x, y, dry}
    DryRuns = {dry}
    Cap = 2
    Allowance = 3
    None = None
INVARIANTS
    AllowanceIsKept
    ConclusionsAreTrue
SYMMETRY MCSymmetry
CHECK_DEADLOCK FALSE
