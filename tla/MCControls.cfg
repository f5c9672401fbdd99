SPECIFICATION MCSpec
CONSTANTS
    None = None
    SourceFiles <- MCSourceFiles
    Strays <- MCStrays
    MaxCaptures = 2
    MaxTests = 1
    Ledgers = {stripe}
    Documents = {x, y}
    Families = {"consumption", "subscription"}
    Cents = {1}
    MaxGross = 3
    MaxEntries = 2
    MaxLines = 2
    ToCome <- MCToCome
    Months = {1, 2}
    Versions = {"v2", "v3"}
    Asked <- MCAsked
    Kinds <- MCKinds
    Outputs <- MCOutputs
    Needs <- MCNeeds
    Lenses = {"nrr"}
    Roots = {b1, b2}
    MaxCalls = 2
INVARIANTS
    ControlTestsHold
    BundleTellsTheTruth
    ComparisonsHold
SYMMETRY MCSymmetry
CHECK_DEADLOCK FALSE
