CONSTANTS
    PathCount = 5
    Collections <- MCCollections
    Outside = {2}
    Orders <- MCOrders
    Limits = {1, 2}
    QueryLimit = 3
SPECIFICATION FairSpec
INVARIANTS
    TypeOK
    ExactPages
    FastPages
    PagesSound
PROPERTY ListingEnds
CHECK_DEADLOCK FALSE
