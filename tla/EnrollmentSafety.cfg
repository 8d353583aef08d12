SPECIFICATION Spec
CONSTANTS
    Consumers = {c1, c2}
    Csrs = {q1}
    Keys = {k1, k2}
    Ops = {1, 2}
    Handlers = {h1, h2}
    Recovery = Recovery
    None = None
    MaxRequests = 3
    MaxIncidents = 0
SYMMETRY Symmetry
INVARIANTS
    TypeOK
    ConsumersMatchEnrollments
    TrustCoversCertificates
    PromotedBundlesWereServed
    AnswersAreActive
CHECK_DEADLOCK FALSE
