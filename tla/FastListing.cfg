CONSTANTS
    PathCount = 5
    Collections <- MCCollections
    Outside = {}
    Orders <- MCOrders
    Limits = {1, 2}
    QueryLimit = 3
SPECIFICATION Spec
INVARIANT WindowShown
CHECK_DEADLOCK FALSE
