SPECIFICATION FairMirrorSpec
CONSTANTS
    s1 = s1
    s2 = s2
    None = None
    Secrets = {s1, s2}
    Versions = {1, 2, 3}
    Grants = {{s1}, {s1, s2}}
    MaxSequence = 3
    MaxTime = 1
    PageSize = 1
    PageLife = 1
    CheckpointLife = 1
    MarkerLife = 1
INVARIANTS
    MirrorInv
PROPERTIES
    CopiesConverge
