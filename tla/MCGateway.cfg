SPECIFICATION Spec
CONSTANTS
    t1 = t1
    t2 = t2
    p = p
    q = q
    a = a
    b = b
    claim = claim
    Threads = {t1, t2}
    Emits <- MCEmits
    Bodies = {a, b, claim}
    Requests <- MCRequests
    MaxAttempts = 2
    MaxRows = 3
    MaxClock = 1
    MaxFlight = 2
    Admissible <- MCAdmissible
    NoThread = NoThread
    NoCall = NoCall
    NoAnswer = NoAnswer
INVARIANTS
    SourceIsSound
    AnswersAreTrue
PROPERTY
    AppendsAreIdempotent
CHECK_DEADLOCK FALSE
SYMMETRY MCSymmetry
