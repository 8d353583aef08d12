SPECIFICATION Spec
CONSTANTS
    o1 = o1
    o2 = o2
    o3 = o3
    n1 = n1
    c1 = c1
    None = None
    Ops = {o1, o2, o3}
    Names = {n1}
    Consumers = {c1}
    Retries = FALSE
    AgentWrites = TRUE
    RecoveryStops = TRUE
    CancelErrors = {"ConditionalCheckFailed", "TransactionCanceled"}
SYMMETRY Symmetry
INVARIANTS
    TypeOK
    HeadMatchesRevision
    NamesReachTheirSecret
    FailureEvidenceIsFinal
    UnreachedIsUnread
PROPERTIES
    ImplementsRegistry
    NoLostUpdate
CHECK_DEADLOCK FALSE
