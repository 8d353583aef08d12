SPECIFICATION FairSpec
CONSTANTS
    Payloads = {p, q}
    Metas = {m, n}
    Foreign = Foreign
    None = None
    MaxWrites = 2
    TakeTurns = TRUE
    MaxIncidents = 3
INVARIANTS
    ClientsInv
    ChangesAreScheduled
    SkippedExportsAreCurrent
PROPERTIES
    ExportsConvergeOrStall
CHECK_DEADLOCK FALSE
