SPECIFICATION MCSpec
CONSTANTS
    Drivers = {d1, d2}
    N = 2
    Cap = 1
    Allowance = 2
    None = None
    Altered = Altered
    Roles <- MCRoles
    Actions <- MCActions
    Ceilings = {8, 14}
    Source <- MCSource
    Missing <- MCMissing
    Strays <- MCStrays
    MaxStrays = 1
    Graders = {g1, g2}
    Answers <- MCAnswers
    Destinations = {s1, s2}
INVARIANTS
    LaunchesFitTheAllowance
    MeasuredIsComplete
    PairsAreBacked
    SealedIsTrue
    ProbesAreBounded
    ChallengeHolds
PROPERTIES
    ImplementsSuite
SYMMETRY MCSymmetry
CHECK_DEADLOCK FALSE
