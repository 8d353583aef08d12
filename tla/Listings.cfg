SPECIFICATION ListingSpec
CONSTANTS
    Uids = {1, 2, 3}
    NameOf <- MCNameOf
    NameOrder <- MCNameOrder
    Tags = {x, y}
    Nothing = Nothing
    FeedPage = 2
    CatalogPage = 1
    HopBudget = 2
    MaxScan = 2
    MaxChanges = 6
    MaxPages = 4
SYMMETRY Symmetry
INVARIANTS
    QuietCyclesDropTheDead
    OnePageSnapshotsAreExact
    ExhaustedListsAreComplete
    ListingsInv
CHECK_DEADLOCK FALSE
