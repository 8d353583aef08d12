SPECIFICATION FairSpec
CONSTANTS
    o1 = o1
    o2 = o2
    n1 = n1
    c1 = c1
    None = None
    Ops = {o1, o2}
    Names = {n1}
    Consumers = {c1}
    Retries = FALSE
    AgentWrites = FALSE
    RecoveryStops = FALSE
    CancelErrors = {"TransactionCanceled"}
PROPERTIES
    RetryableLeaseIsReleased
CHECK_DEADLOCK FALSE
