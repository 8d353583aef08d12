SPECIFICATION Spec
CONSTANTS
    Consumers = {a1}
    Csrs = {q1, q2}
    Identities = {1, 2}
    Secrets = {s1, s2}
    Tokens = {t1, t2}
    Processes = {p1, p2}
    None = None
    MaxRequests = 4
SYMMETRY Symmetry
INVARIANTS
    GrantsInv
    QuietReconcileIsExact
    ActiveGrantsAreProvisioned
PROPERTIES
    ActivationsAreFinal
CHECK_DEADLOCK FALSE
