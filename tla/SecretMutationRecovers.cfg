SPECIFICATION FairSpec
CONSTANTS
    o1 = o1
    o2 = o2
    n1 = n1
    c1 = c1
    c2 = c2
    None = None
    Ops = {o1, o2}
    Names = {n1}
    Consumers = {c1, c2}
    Retries = TRUE
    AgentWrites = FALSE
    RecoveryStops = FALSE
    CancelErrors = {"TransactionCanceled"}
INVARIANTS
    IndexesMatchHeads
    AtMostOncePerKey
PROPERTIES
    PreparedCreateIsResolved
CHECK_DEADLOCK FALSE
