SPECIFICATION Spec
CONSTANTS
    w1 = w1
    w2 = w2
    x = x
    t = t
    a = a
    b = b
    c = c
    z = z
    Writers = {w1, w2}
    Apps = {x}
    NoApp = NoApp
    Timelines = {x, t}
    Bodies = {a, b, c, z, x}
    Calls <- MCCalls
    Backups <- MCBackups
    BatchSize = 2
    MaxClock = 1
    Horizons <- MCHorizons
    NoCall = NoCall
    NoResult = NoResult
INVARIANTS
    TableIsSound
    WatermarksAreFinal
PROPERTIES
    CallsAreAtomic
CHECK_DEADLOCK FALSE
SYMMETRY MCSymmetry
