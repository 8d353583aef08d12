SPECIFICATION FairSpec
CONSTANTS
    Secrets = {s, t}
    Consumers = {c, d}
    Readers = {c}
    Events = {e, f, g}
    Old = {e}
    Retries = 1
    MaxIncidents = 2
INVARIANTS
    UpgradeInv
PROPERTIES
    UpgradesEnd
CHECK_DEADLOCK FALSE
