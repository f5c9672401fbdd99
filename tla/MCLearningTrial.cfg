SPECIFICATION MCSpec
CONSTANTS
    Callers = {c1, c2}
    Packets = {p1, p2}
    None = None
    Runners = {r1, r2}
    Runner = "runner"
    Events <- MCEvents
    MaxClock = 1
    MaxClaims = 2
    Outcomes = {"improved", "failed"}
    Blindness = {"nothing", "identity", "audience", "role", "provenance", "envelope", "scope", "limits",
                 "signature", "conflicts", "revocations", "claims", "inspections", "verdicts", "pins", "expiry"}
    MaxOthers = 1
    MaxEdits = 1
    MaxAltered = 2
INVARIANTS
    OneTrial
    RetainedIsTheFirstImport
    TrialsAreAuthorized
    RehearsalTellsTheTruth
    ScriptIsFollowed
    ReplayTellsTheTruth
PROPERTIES
    NothingAfterRevocation
SYMMETRY MCSymmetry
CHECK_DEADLOCK FALSE
