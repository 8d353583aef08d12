SPECIFICATION Spec
CONSTANTS
    w1 = w1
    w2 = w2
    s1 = s1
    s2 = s2
    Backfill = Backfill
    Legacy = Legacy
    None = None
    Writers = {w1, w2}
    Secrets = {s1, s2}
    BackfillRuns = 2
SYMMETRY Symmetry
INVARIANTS
    TypeOK
    IndexMatchesHeads
    ReadyIndexIsComplete
PROPERTIES
    ImplementsIndex
CHECK_DEADLOCK FALSE
