SPECIFICATION FairSpec
CONSTANTS
    Consumers = {c1, c2}
    Csrs = {q1}
    Keys = {k1, k2}
    Ops = {1, 2}
    Handlers = {h1}
    Recovery = Recovery
    None = None
    MaxRequests = 2
    MaxIncidents = 1
PROPERTIES
    EnrollmentsEnd
    DomainReattached
    ImplementsRegistry
CHECK_DEADLOCK FALSE
