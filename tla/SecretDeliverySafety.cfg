SPECIFICATION Spec
CONSTANTS
    v1 = v1
    v2 = v2
    v3 = v3
    v4 = v4
    s1 = s1
    s2 = s2
    n1 = n1
    c1 = c1
    q1 = q1
    None = None
    Secrets = {s1, s2}
    Versions = {v1, v2, v3, v4}
    Names = {n1}
    Consumers = {c1}
    Reads = {q1}
    RetentionStops = 1
SYMMETRY Symmetry
CONSTRAINT VersionsAreBounded
INVARIANTS
    DeliveriesAreAuthorized
    DeliveryInv
CHECK_DEADLOCK FALSE
