SPECIFICATION FairSpec
CONSTANTS
    p1 = p1
    p2 = p2
    a = a
    b = b
    c = c
    Records = {a, b, c}
    Procs <- MCProcs
    Batches <- MCBatches
    NoProc = NoProc
    NoIntent = NoIntent
INVARIANTS
    LedgerIsRecoverable
    ReadsAreCommitted
PROPERTIES
    AppendsAreAtomic
    PendingIsCompleted
